---- MODULE Spec2Model ----
(***************************************************************************)
(* Model of the remail SMTP engine: the pull parser MessageParser          *)
(* (smtp/src/lib.rs) and the connection handler SmtpHandler                *)
(* (smtp/src/handler.rs) with NewEmail::from_raw_message                   *)
(* (smtp/src/email.rs).                                                    *)
(*                                                                         *)
(* A text line is a sequence of characters, a character is a string of     *)
(* one character.  Option<T> is a sequence of length at most one:          *)
(* None == <<>>, Some(x) == <<x>>.                                         *)
(***************************************************************************)
EXTENDS Integers, Sequences, FiniteSets, TLC

VARIABLES
    parser,      \* MessageParser: lines, state, from, to, current_header, headers, body
    p_input,     \* the whole input the parser was constructed on (never changes)
    p_events,    \* the values returned by the calls of next() so far, in order
    p_ends,      \* number of calls of next() answered at end of input
    handler,     \* SmtpHandler: state, from, to, body
    h_lines,     \* the input of handle() not read yet
    h_input,     \* the whole input handle() was called on (never changes)
    h_pc,        \* position in SmtpHandler::handle: "greet", "loop", "await",
                 \* "shutdown", "done"
    h_log,       \* what handle() did so far, in order: writes, persist calls, shutdowns
    h_result,    \* Option<bool>: the value of handle_line that ended the loop
    h_pending,   \* Option: the call of handle_line that is suspended at an await
                 \* (self and the line it was called on, the awaits completed)
    server       \* main, its accept task, its connection tasks and the registry

pvars == <<parser, p_input, p_events, p_ends>>
hvars == <<handler, h_lines, h_input, h_pc, h_log, h_result, h_pending>>
vars == <<parser, p_input, p_events, p_ends,
          handler, h_lines, h_input, h_pc, h_log, h_result, h_pending, server>>

(***************************************************************************)
(* Bounds of the model.                                                    *)
(***************************************************************************)
MaxEnds == 2
MaxRcpt == 2
MaxHeaderLines == 2
MaxBodyLines == 2
MaxConns == 2

(***************************************************************************)
(* Option and string helpers (std).                                        *)
(***************************************************************************)
None == <<>>
Some(x) == <<x>>

\* str::len counts bytes.  Every ASCII character is the string of itself
\* ("U+000B" stands for the vertical tab); the string "U+00E9" stands for the
\* character e-acute, which is 2 bytes in UTF-8, and so on for the other
\* characters written "U+....".
TwoByteChars == {"U+00E9", "U+00C9", "U+0085", "U+00A0"}
ThreeByteChars ==
    {"U+1680", "U+2000", "U+2001", "U+2002", "U+2003", "U+2004", "U+2005",
     "U+2006", "U+2007", "U+2008", "U+2009", "U+200A", "U+2028", "U+2029",
     "U+202F", "U+205F", "U+3000"}
Width(c) == IF c \in TwoByteChars THEN 2 ELSE IF c \in ThreeByteChars THEN 3 ELSE 1

RECURSIVE ByteLen(_)
ByteLen(s) == IF s = <<>> THEN 0 ELSE Width(Head(s)) + ByteLen(Tail(s))

\* the number of leading characters of s that cover exactly n bytes,
\* or -1 when byte offset n is not a character boundary of s
RECURSIVE CharsIn(_, _)
CharsIn(s, n) ==
    IF n = 0 THEN 0
    ELSE IF s = <<>> \/ Width(Head(s)) > n THEN -1
    ELSE LET r == CharsIn(Tail(s), n - Width(Head(s)))
         IN IF r = -1 THEN -1 ELSE r + 1

IsCharBoundary(s, n) == CharsIn(s, n) # -1

\* &s[..n] and &s[n..] for a byte offset n that is a character boundary
SliceTo(s, n) == SubSeq(s, 1, CharsIn(s, n))
SliceFrom(s, n) == SubSeq(s, CharsIn(s, n) + 1, Len(s))

UpperChar(c) ==
    CASE c = "a" -> "A" [] c = "b" -> "B" [] c = "c" -> "C" [] c = "d" -> "D"
      [] c = "e" -> "E" [] c = "f" -> "F" [] c = "g" -> "G" [] c = "h" -> "H"
      [] c = "i" -> "I" [] c = "j" -> "J" [] c = "k" -> "K" [] c = "l" -> "L"
      [] c = "m" -> "M" [] c = "n" -> "N" [] c = "o" -> "O" [] c = "p" -> "P"
      [] c = "q" -> "Q" [] c = "r" -> "R" [] c = "s" -> "S" [] c = "t" -> "T"
      [] c = "u" -> "U" [] c = "v" -> "V" [] c = "w" -> "W" [] c = "x" -> "X"
      [] c = "y" -> "Y" [] c = "z" -> "Z" [] c = "U+00E9" -> "U+00C9"
      [] OTHER -> c

to_uppercase(s) == [i \in 1..Len(s) |-> UpperChar(s[i])]

\* char::is_whitespace: the characters with the Unicode property White_Space
IsWhitespace(c) ==
    c \in {"\t", "\n", "U+000B", "\f", "\r", " ", "U+0085", "U+00A0", "U+1680",
           "U+2000", "U+2001", "U+2002", "U+2003", "U+2004", "U+2005", "U+2006",
           "U+2007", "U+2008", "U+2009", "U+200A", "U+2028", "U+2029", "U+202F",
           "U+205F", "U+3000"}

starts_with(s, prefix) ==
    Len(s) >= Len(prefix) /\ SubSeq(s, 1, Len(prefix)) = prefix

\* Option: the rest of s after prefix / before suffix
strip_prefix(s, prefix) ==
    IF starts_with(s, prefix) THEN Some(SubSeq(s, Len(prefix) + 1, Len(s))) ELSE None

strip_suffix(s, suffix) ==
    IF Len(s) >= Len(suffix) /\ SubSeq(s, Len(s) - Len(suffix) + 1, Len(s)) = suffix
    THEN Some(SubSeq(s, 1, Len(s) - Len(suffix)))
    ELSE None

unwrap_or(opt, default) == IF opt = None THEN default ELSE opt[1]

RECURSIVE trim_start(_)
trim_start(s) ==
    IF s # <<>> /\ IsWhitespace(Head(s)) THEN trim_start(Tail(s)) ELSE s

RECURSIVE trim_end(_)
trim_end(s) ==
    IF s # <<>> /\ IsWhitespace(s[Len(s)]) THEN trim_end(SubSeq(s, 1, Len(s) - 1)) ELSE s

trim(s) == trim_end(trim_start(s))

\* the index of the first character of s (from index i on) that satisfies
\* "is whitespace", or Len(s) + 1
RECURSIVE FirstWhitespace(_, _)
FirstWhitespace(s, i) ==
    IF i > Len(s) \/ IsWhitespace(s[i]) THEN i ELSE FirstWhitespace(s, i + 1)

\* s.split_whitespace().next(): Option of the first whitespace-delimited token
first_token(s) ==
    LET t == trim_start(s)
    IN IF t = <<>> THEN None ELSE Some(SubSeq(t, 1, FirstWhitespace(t, 1) - 1))

\* the index of the first occurrence of character c in s, or 0
RECURSIVE IndexOf(_, _, _)
IndexOf(s, c, i) ==
    IF i > Len(s) THEN 0 ELSE IF s[i] = c THEN i ELSE IndexOf(s, c, i + 1)

\* the index of the last occurrence of character c in s, or 0
RECURSIVE LastIndexOf(_, _, _)
LastIndexOf(s, c, i) ==
    IF i = 0 THEN 0 ELSE IF s[i] = c THEN i ELSE LastIndexOf(s, c, i - 1)

\* s.split_once(':'): Option of the pair (before, after) of the first ':'
split_once(s, c) ==
    LET i == IndexOf(s, c, 1)
    IN IF i = 0 THEN None
       ELSE Some(<<SubSeq(s, 1, i - 1), SubSeq(s, i + 1, Len(s))>>)

\* parts.join(sep) for a sequence of strings
RECURSIVE join(_, _)
join(parts, sep) ==
    IF parts = <<>> THEN <<>>
    ELSE IF Len(parts) = 1 THEN parts[1]
    ELSE parts[1] \o sep \o join(Tail(parts), sep)

\* a.eq_ignore_ascii_case(b): only ASCII letters are folded
to_ascii_uppercase(s) ==
    [i \in 1..Len(s) |-> IF Width(s[i]) = 1 THEN UpperChar(s[i]) ELSE s[i]]

eq_ignore_ascii_case(a, b) == to_ascii_uppercase(a) = to_ascii_uppercase(b)

(***************************************************************************)
(* EmailAddress::from_str of the email_address crate, as far as the        *)
(* characters of the model go: local-part "@" domain, split at the last    *)
(* "@", both sides non-empty, made of letters, digits and the listed       *)
(* punctuation, with no empty dot-separated label.                         *)
(***************************************************************************)
Letters == {"a", "b", "c", "d", "e", "f", "g", "h", "i", "j", "k", "l", "m",
            "n", "o", "p", "q", "r", "s", "t", "u", "v", "w", "x", "y", "z",
            "A", "B", "C", "D", "E", "F", "G", "H", "I", "J", "K", "L", "M",
            "N", "O", "P", "Q", "R", "S", "T", "U", "V", "W", "X", "Y", "Z",
            "0", "1", "2", "3", "4", "5", "6", "7", "8", "9"}
LocalChars == Letters \cup {"+", "-", "_", ".", "=", "!", "#"}
DomainChars == Letters \cup {"-", "."}

NoEmptyLabel(s) ==
    /\ s # <<>>
    /\ s[1] # "."
    /\ s[Len(s)] # "."
    /\ \A i \in 1..(Len(s) - 1) : ~(s[i] = "." /\ s[i + 1] = ".")

IsValidEmail(s) ==
    LET at == LastIndexOf(s, "@", Len(s))
        local == SubSeq(s, 1, at - 1)
        domain == SubSeq(s, at + 1, Len(s))
    IN /\ at # 0
       /\ NoEmptyLabel(local)
       /\ NoEmptyLabel(domain)
       /\ \A i \in 1..Len(local) : local[i] \in LocalChars
       /\ \A i \in 1..Len(domain) : domain[i] \in DomainChars

\* address_token_whole_rest is address_token without split_whitespace().next();
\* address_token is
\* rest.split_whitespace().next().unwrap_or("")
\*     .strip_prefix('<').and_then(|s| s.strip_suffix('>')).unwrap_or("")
address_token_whole_rest(rest) ==
    LET inner == strip_prefix(rest, <<"<">>)
    IN IF inner = None THEN <<>> ELSE unwrap_or(strip_suffix(inner[1], <<">">>), <<>>)

address_token(rest) ==
    LET tok == unwrap_or(first_token(rest), <<>>)
        inner == strip_prefix(tok, <<"<">>)
    IN IF inner = None THEN <<>> ELSE unwrap_or(strip_suffix(inner[1], <<">">>), <<>>)

(***************************************************************************)
(* MessageParser (smtp/src/lib.rs).                                        *)
(***************************************************************************)
\* an item of the line source that is a read error, not a line
IOError == <<"<io error>">>

Ev(tag, val) == [tag |-> tag, val |-> val]

ErrorTags == {"IO", "UnrecognizedCommand", "InvalidFromEmailAddress",
              "InvalidToEmailAddress", "UnexpectedEnd", "UnexpectedDataAfterEnd",
              "InvalidHeader"}
IsErr(e) == e.tag \in ErrorTags

\* NonEmptyVec<T>: the sequence head, tail...; never empty
NonEmptyVec_new(head) == <<head>>
into_vec(v) == v

\* MessageParser::new(reader)
MessageParser_new(lines) ==
    [lines |-> lines,
     state |-> "Start",
     from |-> None,
     to |-> NonEmptyVec_new(<<>>),
     current_header |-> None,
     headers |-> <<>>,
     body |-> <<>>]

\* what a branch of next() does: the parser afterwards and either the value
\* it returns (out) or the tail call self.next() (again)
Return(p, e) == [p |-> p, again |-> FALSE, out |-> Some(e)]
Recurse(p) == [p |-> p, again |-> TRUE, out |-> None]
\* a slice at a byte offset inside a character aborts the thread
Panic(p, line) == [p |-> p, again |-> FALSE, out |-> Some(Ev("Panic", line))]

\* parse_rcpt_to(line): Option of the address, None for Err;
\* parse_rcpt_to_allow_empty is parse_rcpt_to taking the empty token as Ok
parse_rcpt_to_allow_empty(line) ==
    LET to == address_token(SliceFrom(line, 8))
    IN IF to = <<>> \/ IsValidEmail(to) THEN Some(to) ELSE None

parse_rcpt_to(line) ==
    LET to == address_token(SliceFrom(line, 8))
    IN IF IsValidEmail(to) THEN Some(to) ELSE None

\* the (name, value) pair that current_header is pushed as
finished_header(h) == <<h.name, join(into_vec(h.value), <<" ">>)>>

on_start(p, line) ==
    IF ByteLen(line) < 4 THEN Return(p, Ev("UnrecognizedCommand", line))
    ELSE IF ~IsCharBoundary(line, 4) THEN Panic(p, line)
    ELSE LET up == to_uppercase(SliceTo(line, 4))
         IN IF up = <<"H", "E", "L", "O">> \/ up = <<"E", "H", "L", "O">>
            THEN Recurse([p EXCEPT !.state = "Helo"])
            ELSE Return(p, Ev("UnrecognizedCommand", up))

\* on_helo rejecting the empty address token instead of taking it as the
\* null sender
on_helo_no_null_sender(p, line) ==
    IF ByteLen(line) < 10 THEN Return(p, Ev("UnrecognizedCommand", line))
    ELSE IF ~IsCharBoundary(line, 10) THEN Panic(p, line)
    ELSE IF to_uppercase(SliceTo(line, 10))
            = <<"M", "A", "I", "L", " ", "F", "R", "O", "M", ":">>
    THEN LET from == address_token(SliceFrom(line, 10))
         IN IF IsValidEmail(from)
            THEN Return([p EXCEPT !.from = Some(from), !.state = "MailFrom"],
                        Ev("From", Some(from)))
            ELSE Return(p, Ev("InvalidFromEmailAddress", from))
    ELSE Return(p, Ev("UnrecognizedCommand", line))

on_helo(p, line) ==
    IF ByteLen(line) < 10 THEN Return(p, Ev("UnrecognizedCommand", line))
    ELSE IF ~IsCharBoundary(line, 10) THEN Panic(p, line)
    ELSE IF to_uppercase(SliceTo(line, 10))
            = <<"M", "A", "I", "L", " ", "F", "R", "O", "M", ":">>
    THEN LET from == address_token(SliceFrom(line, 10))
         IN IF from = <<>>
            THEN Return([p EXCEPT !.from = None, !.state = "MailFrom"],
                        Ev("From", None))
            ELSE IF IsValidEmail(from)
            THEN Return([p EXCEPT !.from = Some(from), !.state = "MailFrom"],
                        Ev("From", Some(from)))
            ELSE Return(p, Ev("InvalidFromEmailAddress", from))
    ELSE Return(p, Ev("UnrecognizedCommand", line))

\* on_mail_from taking DATA before any recipient was given
on_mail_from_accept_data(p, line) ==
    IF to_uppercase(line) = <<"D", "A", "T", "A">>
    THEN Recurse([p EXCEPT !.state = "Headers"])
    ELSE IF ByteLen(line) < 8 THEN Return(p, Ev("UnrecognizedCommand", line))
    ELSE IF ~IsCharBoundary(line, 8) THEN Panic(p, line)
    ELSE IF to_uppercase(SliceTo(line, 8)) = <<"R", "C", "P", "T", " ", "T", "O", ":">>
    THEN LET email == parse_rcpt_to(line)
         IN IF email # None
            THEN Return([p EXCEPT !.to[1] = email[1], !.state = "RcptTo"],
                        Ev("To", email[1]))
            ELSE Return(p, Ev("InvalidToEmailAddress", address_token(SliceFrom(line, 8))))
    ELSE Return(p, Ev("UnrecognizedCommand", line))

on_mail_from(p, line) ==
    IF ByteLen(line) < 8 THEN Return(p, Ev("UnrecognizedCommand", line))
    ELSE IF ~IsCharBoundary(line, 8) THEN Panic(p, line)
    ELSE IF to_uppercase(SliceTo(line, 8)) = <<"R", "C", "P", "T", " ", "T", "O", ":">>
    THEN LET email == parse_rcpt_to(line)
         IN IF email # None
            THEN Return([p EXCEPT !.to[1] = email[1], !.state = "RcptTo"],
                        Ev("To", email[1]))
            ELSE Return(p, Ev("InvalidToEmailAddress", address_token(SliceFrom(line, 8))))
    ELSE Return(p, Ev("UnrecognizedCommand", line))

\* on_rcpt_to storing the address in place of the first recipient instead
\* of pushing it
on_rcpt_to_overwrite(p, line) ==
    IF to_uppercase(line) = <<"D", "A", "T", "A">>
    THEN Recurse([p EXCEPT !.state = "Headers"])
    ELSE IF starts_with(line, <<"R", "C", "P", "T", " ", "T", "O", ":">>)
    THEN LET email == parse_rcpt_to(line)
         IN IF email # None
            THEN Return([p EXCEPT !.to[1] = email[1], !.state = "RcptTo"],
                        Ev("To", email[1]))
            ELSE Return(p, Ev("InvalidToEmailAddress", address_token(SliceFrom(line, 8))))
    ELSE Return(p, Ev("UnrecognizedCommand", line))

on_rcpt_to(p, line) ==
    IF to_uppercase(line) = <<"D", "A", "T", "A">>
    THEN Recurse([p EXCEPT !.state = "Headers"])
    ELSE IF starts_with(line, <<"R", "C", "P", "T", " ", "T", "O", ":">>)
    THEN LET email == parse_rcpt_to(line)
         IN IF email # None
            THEN Return([p EXCEPT !.to = Append(@, email[1]), !.state = "RcptTo"],
                        Ev("To", email[1]))
            ELSE Return(p, Ev("InvalidToEmailAddress", address_token(SliceFrom(line, 8))))
    ELSE Return(p, Ev("UnrecognizedCommand", line))

\* self.headers.push(current_header); self.current_header = None (when it is Some)
close_header(p) ==
    IF p.current_header # None
    THEN [p EXCEPT !.headers = Append(@, finished_header(p.current_header[1])),
                   !.current_header = None]
    ELSE p

\* line.strip_prefix(" ").unwrap_or_default().strip_prefix("\t").unwrap_or_default()
continuation_part(line) ==
    unwrap_or(strip_prefix(unwrap_or(strip_prefix(line, <<" ">>), <<>>), <<"\t">>), <<>>)

\* on_headers skipping a line without a colon instead of returning an error
on_headers_drop_no_colon(p, line) ==
    IF line = <<>>
    THEN Recurse([close_header(p) EXCEPT !.state = "Body"])
    ELSE IF starts_with(line, <<" ">>) \/ starts_with(line, <<"\t">>)
    THEN IF p.current_header # None
         THEN Recurse([p EXCEPT !.current_header[1].value =
                                    Append(@, continuation_part(line))])
         ELSE Return(p, Ev("InvalidHeader", line))
    ELSE LET q == close_header(p)
             kv == split_once(line, ":")
         IN IF kv # None
            THEN Recurse([q EXCEPT !.current_header =
                              Some([name |-> kv[1][1],
                                    value |-> NonEmptyVec_new(kv[1][2])])])
            ELSE Recurse(q)

on_headers(p, line) ==
    IF line = <<>>
    THEN Recurse([close_header(p) EXCEPT !.state = "Body"])
    ELSE IF starts_with(line, <<" ">>) \/ starts_with(line, <<"\t">>)
    THEN IF p.current_header # None
         THEN Recurse([p EXCEPT !.current_header[1].value =
                                    Append(@, continuation_part(line))])
         ELSE Return(p, Ev("InvalidHeader", line))
    ELSE LET q == close_header(p)
             kv == split_once(line, ":")
         IN IF kv # None
            THEN Recurse([q EXCEPT !.current_header =
                              Some([name |-> kv[1][1],
                                    value |-> NonEmptyVec_new(kv[1][2])])])
            ELSE Return(q, Ev("InvalidHeader", line))

\* the body line stored for a data line: one leading dot removed;
\* unstuff_keep_dot is unstuff leaving the leading dot in place
unstuff_keep_dot(line) == line

unstuff(line) == unwrap_or(strip_prefix(line, <<".">>), line)

on_body(p, line) ==
    IF line = <<".">>
    THEN Return([p EXCEPT !.state = "End"], Ev("Body", p.body))
    ELSE Recurse([p EXCEPT !.body = Append(@, unstuff(line))])

on_end(p, line) == Return(p, Ev("UnexpectedDataAfterEnd", line))

\* the match on self.state for a line that was read
dispatch(p, line) ==
    CASE p.state = "Start" -> on_start(p, line)
      [] p.state = "Helo" -> on_helo(p, line)
      [] p.state = "MailFrom" -> on_mail_from(p, line)
      [] p.state = "RcptTo" -> on_rcpt_to(p, line)
      [] p.state = "Headers" -> on_headers(p, line)
      [] p.state = "Body" -> on_body(p, line)
      [] p.state = "End" -> on_end(p, line)
      [] p.state = "Done" -> on_end(p, line)

\* the match on self.state when the line source is exhausted: Option of the result
\* (at_end_done_in_body is at_end answering Done in the Body state too)
at_end_done_in_body(state) ==
    CASE state \in {"Body", "End"} -> Some(Ev("Done", <<>>))
      [] state = "Done" -> None
      [] OTHER -> Some(Ev("UnexpectedEnd", <<>>))

at_end(state) ==
    CASE state = "End" -> Some(Ev("Done", <<>>))
      [] state = "Done" -> None
      [] OTHER -> Some(Ev("UnexpectedEnd", <<>>))

\* <MessageParser as Iterator>::next
RECURSIVE next(_)
next(p) ==
    IF p.lines = <<>>
    THEN [p |-> p, again |-> FALSE, out |-> at_end(p.state)]
    ELSE LET item == Head(p.lines)
             q == [p EXCEPT !.lines = Tail(@)]
         IN IF item = IOError
            THEN Return(q, Ev("IO", <<>>))
            ELSE LET r == dispatch(q, item)
                 IN IF r.again THEN next(r.p) ELSE r

(***************************************************************************)
(* The lines and addresses the inputs of the model are made of.            *)
(***************************************************************************)
L_HELO == <<"H", "E", "L", "O", " ", "x">>
L_EHLO == <<"E", "H", "L", "O", " ", "x">>
L_MAIL_S == <<"M", "A", "I", "L", " ", "F", "R", "O", "M", ":", " ", "<", "s", "@", "a", ".", "c", "o", "m", ">">>
L_MAIL_NULL == <<"M", "A", "I", "L", " ", "F", "R", "O", "M", ":", "<", ">">>
L_RCPT_R == <<"R", "C", "P", "T", " ", "T", "O", ":", " ", "<", "r", "@", "b", ".", "c", "o", "m", ">">>
L_RCPT_T == <<"R", "C", "P", "T", " ", "T", "O", ":", "<", "t", "@", "c", ".", "c", "o", "m", ">">>
L_DATA == <<"D", "A", "T", "A">>
L_SUBJECT_HI == <<"S", "u", "b", "j", "e", "c", "t", ":", " ", "H", "i">>
L_SECOND == <<" ", "S", "e", "c", "o", "n", "d">>
L_HELLO == <<"H", "e", "l", "l", "o">>
L_HELLO_WORLD == <<"H", "e", "l", "l", "o", ",", " ", "w", "o", "r", "l", "d", "!">>
L_DOT_FOO == <<".", ".", "f", "o", "o">>
A_S == <<"s", "@", "a", ".", "c", "o", "m">>
A_R == <<"r", "@", "b", ".", "c", "o", "m">>
A_T == <<"t", "@", "c", ".", "c", "o", "m">>
L_SUBJECT_TEST == <<"S", "u", "b", "j", "e", "c", "t", ":", " ", "T", "e", "s", "t">>
L_SUBJECT_TEST_NOSP == <<"S", "u", "b", "j", "e", "c", "t", ":", "T", "e", "s", "t">>
L_SUBJECT_TEST_TRAIL == <<"S", "u", "b", "j", "e", "c", "t", ":", "T", "e", "s", "t", " ">>
L_SUBJECT_TEST_2SP == <<"S", "u", "b", "j", "e", "c", "t", ":", " ", " ", "T", "e", "s", "t">>
L_CC == <<"C", "c", ":", " ", "j", "@", "e", ".", "c", "o", "m">>
L_SUBJECT_ONLY == <<"S", "u", "b", "j", "e", "c", "t", ":">>
L_SUBJECT_SP == <<"S", "u", "b", "j", "e", "c", "t", ":", " ">>
L_TEST == <<" ", "T", "e", "s", "t">>
L_SUBJECT_FIRST == <<"S", "u", "b", "j", "e", "c", "t", ":", " ", "F", "i", "r", "s", "t">>
L_SPACE == <<" ">>
L_TAB_SECOND == <<"\t", "S", "e", "c", "o", "n", "d">>
L_SP_DOT == <<" ", ".">>
L_EMPTY == <<>>
L_DOT == <<".">>

\* all sequences over S of length at most n
RECURSIVE SeqsUpTo(_, _)
SeqsUpTo(S, n) ==
    IF n = 0 THEN {<<>>}
    ELSE LET shorter == SeqsUpTo(S, n - 1)
         IN shorter \cup {Append(s, x) : s \in shorter, x \in S}

Prefixes(s) == {SubSeq(s, 1, n) : n \in 0..Len(s)}

(***************************************************************************)
(* Inputs of the parser: a greeting, a MAIL FROM, one to MaxRcpt RCPT TO,  *)
(* DATA, up to MaxHeaderLines lines of a header block, possibly the empty  *)
(* line, up to MaxBodyLines body lines and possibly the terminator; and    *)
(* the dialogs that end inside the commands.                               *)
(***************************************************************************)
Greetings == {L_HELO, L_EHLO}
MailFroms == {L_MAIL_S, L_MAIL_NULL}
RcptTos == {L_RCPT_R, L_RCPT_T}
HeaderLines == {L_SUBJECT_HI, L_HELLO_WORLD}
BodyLines == {L_HELLO, L_DOT_FOO}

Commands ==
    {<<g, m>> \o r \o <<L_DATA>> :
        g \in Greetings, m \in MailFroms,
        r \in (SeqsUpTo(RcptTos, MaxRcpt) \ {<<>>})}

DataBlocks ==
    {h \o e \o b \o t :
        h \in SeqsUpTo(HeaderLines, MaxHeaderLines), e \in {<<>>, <<L_EMPTY>>},
        b \in SeqsUpTo(BodyLines, MaxBodyLines), t \in {<<>>, <<L_DOT>>}}

Dialogs == {c \o d : c \in Commands, d \in DataBlocks}

ParserInputs == Dialogs \cup UNION {Prefixes(c) : c \in Commands}

(***************************************************************************)
(* SmtpHandler (smtp/src/handler.rs): construction.                        *)
(***************************************************************************)
\* SmtpHandler::new(write_stream, persistor)
SmtpHandler_new ==
    [state |-> "Start", from |-> <<>>, to |-> <<>>, body |-> <<>>]

HandlerIdle ==
    /\ handler = SmtpHandler_new
    /\ h_lines = <<>>
    /\ h_input = <<>>
    /\ h_pending = None
    /\ h_pc = "greet"
    /\ h_log = <<>>
    /\ h_result = None

(***************************************************************************)
(* main (maild/src/main.rs): the state when the accept task was spawned.   *)
(* A connection is named by a number that stands for its peer address.     *)
(***************************************************************************)
Conns == 1..MaxConns

\* main awaits ctrl_c, the accept task awaits listener.accept(), no
\* connection was accepted, active_connections is empty and unlocked
Server_new ==
    [main |-> "ctrl_c",
     accept |-> "accept",
     abort |-> FALSE,
     pending |-> 0,
     conn |-> [c \in Conns |-> "none"],
     registry |-> {},
     locked |-> FALSE,
     await |-> 0,
     joined |-> {},
     parked |-> FALSE,
     down |-> FALSE]

ServerIdle == server = Server_new

(***************************************************************************)
(* NewEmail::from_raw_message (smtp/src/email.rs).                         *)
(***************************************************************************)
\* the loop over body_lines, from the state (headers, body, parsing_headers)
RECURSIVE raw_message_loop(_, _, _, _)
raw_message_loop(lines, headers, body, parsing_headers) ==
    IF lines = <<>> THEN [headers |-> headers, body |-> body]
    ELSE LET line == Head(lines)
             rest == Tail(lines)
         IN IF parsing_headers
            THEN IF line = <<>>
                 THEN raw_message_loop(rest, headers, body, FALSE)
                 ELSE LET kv == split_once(line, ":")
                      IN IF kv # None
                         THEN raw_message_loop(rest,
                                  Append(headers, <<trim(kv[1][1]), trim(kv[1][2])>>),
                                  body, TRUE)
                         ELSE IF headers # <<>>
                         THEN raw_message_loop(rest,
                                  [headers EXCEPT ![Len(headers)][2] = @ \o <<"\n">> \o line],
                                  body, TRUE)
                         ELSE raw_message_loop(rest, Append(headers, <<line, <<>>>>),
                                  body, TRUE)
            ELSE raw_message_loop(rest, headers, body \o line \o <<"\r", "\n">>, FALSE)

\* find_subject taking the last header called Subject instead of the first
RECURSIVE find_subject_last(_)
find_subject_last(headers) ==
    IF headers = <<>> THEN <<>>
    ELSE IF eq_ignore_ascii_case(headers[Len(headers)][1],
                                 <<"S", "u", "b", "j", "e", "c", "t">>)
    THEN headers[Len(headers)][2]
    ELSE find_subject_last(SubSeq(headers, 1, Len(headers) - 1))

\* headers.iter().find(|(key, _)| key.eq_ignore_ascii_case("Subject"))
\*     .map_or(String::new(), |(_, value)| value.clone())
RECURSIVE find_subject(_)
find_subject(headers) ==
    IF headers = <<>> THEN <<>>
    ELSE IF eq_ignore_ascii_case(Head(headers)[1], <<"S", "u", "b", "j", "e", "c", "t">>)
    THEN Head(headers)[2]
    ELSE find_subject(Tail(headers))

\* from_raw_message with the sender and the recipient exchanged
from_raw_message_swapped(from, to, body_lines) ==
    LET r == raw_message_loop(body_lines, <<>>, <<>>, TRUE)
    IN [from |-> to,
        to |-> from,
        subject |-> find_subject(r.headers),
        headers |-> r.headers,
        body |-> r.body]

from_raw_message(from, to, body_lines) ==
    LET r == raw_message_loop(body_lines, <<>>, <<>>, TRUE)
    IN [from |-> from,
        to |-> to,
        subject |-> find_subject(r.headers),
        headers |-> r.headers,
        body |-> r.body]

(***************************************************************************)
(* SmtpHandler::handle_line (smtp/src/handler.rs).                         *)
(***************************************************************************)
R220 == "220 smt.example.com ESMTP Remail\r\n"
R250Hello == "250 Hello\r\n"
R250 == "250 OK\r\n"
R250Accepted == "250 OK: Message accepted for delivery\r\n"
R354 == "354 Start mail input; end with <CRLF>.<CRLF>\r\n"
R500 == "500 Unrecognized command\r\n"
R501 == "501 Syntax error in parameters or arguments\r\n"
R503 == "503 Bad sequence of commands\r\n"
R550 == "550 Internal server error\r\n"

\* entries of h_log; the fields an entry does not use are blank
NoEmail == [from |-> <<>>, to |-> <<>>, subject |-> <<>>, headers |-> <<>>, body |-> <<>>]
Wrote(reply, ok) == [op |-> "write", reply |-> reply, email |-> NoEmail, ok |-> ok]
Persisted(email, ok) == [op |-> "persist", reply |-> "", email |-> email, ok |-> ok]
ShutDown == [op |-> "shutdown", reply |-> "", email |-> NoEmail, ok |-> TRUE]
Panicking == [op |-> "panic", reply |-> "", email |-> NoEmail, ok |-> FALSE]

\* what handle_line does: the handler afterwards, its return value
\* (Option<bool>) and the writes and persist calls it made
Line(h, ret, log) == [h |-> h, ret |-> ret, log |-> log]

\* self.write(reply) succeeded or else return Some(false)
\* (wok: whether the write on write_stream succeeds)
line_start(h, line, wok) ==
    IF ByteLen(line) < 4 THEN Line(h, Some(FALSE), <<Wrote(R500, wok)>>)
    ELSE IF ~IsCharBoundary(line, 4) THEN Line(h, None, <<Panicking>>)
    ELSE LET up == to_uppercase(SliceTo(line, 4))
         IN IF up = <<"H", "E", "L", "O">> \/ up = <<"E", "H", "L", "O">>
            THEN Line([h EXCEPT !.state = "MailFrom"],
                      IF wok THEN None ELSE Some(FALSE),
                      <<Wrote(R250Hello, wok)>>)
            ELSE Line(h, Some(FALSE), <<Wrote(R500, wok)>>)

\* line_mail_from going on with the dialog after the reply 501
line_mail_from_continue_after_501(h, line, wok) ==
    IF ByteLen(line) < 10 THEN Line(h, Some(FALSE), <<Wrote(R500, wok)>>)
    ELSE IF ~IsCharBoundary(line, 10) THEN Line(h, None, <<Panicking>>)
    ELSE IF to_uppercase(SliceTo(line, 10))
            = <<"M", "A", "I", "L", " ", "F", "R", "O", "M", ":">>
    THEN LET from == address_token(SliceFrom(line, 10))
         IN IF ~IsValidEmail(from)
            THEN Line(h, None, <<Wrote(R501, wok)>>)
            ELSE IF ~wok
            THEN Line([h EXCEPT !.from = from], Some(FALSE), <<Wrote(R250, wok)>>)
            ELSE Line([h EXCEPT !.from = from, !.state = "RcptTo"], None,
                      <<Wrote(R250, wok)>>)
    ELSE Line(h, Some(FALSE), <<Wrote(R503, wok)>>)

line_mail_from(h, line, wok) ==
    IF ByteLen(line) < 10 THEN Line(h, Some(FALSE), <<Wrote(R500, wok)>>)
    ELSE IF ~IsCharBoundary(line, 10) THEN Line(h, None, <<Panicking>>)
    ELSE IF to_uppercase(SliceTo(line, 10))
            = <<"M", "A", "I", "L", " ", "F", "R", "O", "M", ":">>
    THEN LET from == address_token(SliceFrom(line, 10))
         IN IF ~IsValidEmail(from)
            THEN Line(h, Some(FALSE), <<Wrote(R501, wok)>>)
            ELSE IF ~wok
            THEN Line([h EXCEPT !.from = from], Some(FALSE), <<Wrote(R250, wok)>>)
            ELSE Line([h EXCEPT !.from = from, !.state = "RcptTo"], None,
                      <<Wrote(R250, wok)>>)
    ELSE Line(h, Some(FALSE), <<Wrote(R503, wok)>>)

line_rcpt_to(h, line, wok) ==
    IF ByteLen(line) < 8 THEN Line(h, Some(FALSE), <<Wrote(R500, wok)>>)
    ELSE IF ~IsCharBoundary(line, 8) THEN Line(h, None, <<Panicking>>)
    ELSE IF to_uppercase(SliceTo(line, 8)) = <<"R", "C", "P", "T", " ", "T", "O", ":">>
    THEN LET to == address_token(SliceFrom(line, 8))
         IN IF ~IsValidEmail(to)
            THEN Line(h, Some(FALSE), <<Wrote(R501, wok)>>)
            ELSE IF ~wok
            THEN Line([h EXCEPT !.to = to], Some(FALSE), <<Wrote(R250, wok)>>)
            ELSE Line([h EXCEPT !.to = to, !.state = "Data"], None,
                      <<Wrote(R250, wok)>>)
    ELSE Line(h, Some(FALSE), <<Wrote(R503, wok)>>)

\* line_data replying 250 to DATA
line_data_250(h, line, wok) ==
    IF to_uppercase(line) = <<"D", "A", "T", "A">>
    THEN IF ~wok
         THEN Line(h, Some(FALSE), <<Wrote(R250, wok)>>)
         ELSE Line([h EXCEPT !.state = "End"], None, <<Wrote(R250, wok)>>)
    ELSE Line(h, Some(FALSE), <<Wrote(R503, wok)>>)

line_data(h, line, wok) ==
    IF to_uppercase(line) = <<"D", "A", "T", "A">>
    THEN IF ~wok
         THEN Line(h, Some(FALSE), <<Wrote(R354, wok)>>)
         ELSE Line([h EXCEPT !.state = "End"], None, <<Wrote(R354, wok)>>)
    ELSE Line(h, Some(FALSE), <<Wrote(R503, wok)>>)

\* line_end persisting the message so far on every data line
line_end_persist_each_line(h, line, wok, pok) ==
    LET email == from_raw_message(h.from, h.to, h.body)
    IN IF line = <<".">>
       THEN IF ~pok
            THEN Line(h, Some(FALSE), <<Persisted(email, FALSE), Wrote(R550, wok)>>)
            ELSE IF ~wok
            THEN Line(h, Some(FALSE), <<Persisted(email, TRUE), Wrote(R250Accepted, wok)>>)
            ELSE Line(h, Some(TRUE), <<Persisted(email, TRUE), Wrote(R250Accepted, wok)>>)
       ELSE Line([h EXCEPT !.body = Append(@, unstuff(line))], None,
                 <<Persisted(email, TRUE)>>)

\* line_end accepting the message whatever persist_email returns
line_end_ignore_persist_error(h, line, wok, pok) ==
    IF line = <<".">>
    THEN LET email == from_raw_message(h.from, h.to, h.body)
         IN IF ~wok
            THEN Line(h, Some(FALSE), <<Persisted(email, pok), Wrote(R250Accepted, wok)>>)
            ELSE Line(h, Some(TRUE), <<Persisted(email, pok), Wrote(R250Accepted, wok)>>)
    ELSE Line([h EXCEPT !.body = Append(@, unstuff(line))], None, <<>>)

\* (pok: whether persist_email returns Ok)
line_end(h, line, wok, pok) ==
    IF line = <<".">>
    THEN LET email == from_raw_message(h.from, h.to, h.body)
         IN IF ~pok
            THEN Line(h, Some(FALSE), <<Persisted(email, FALSE), Wrote(R550, wok)>>)
            ELSE IF ~wok
            THEN Line(h, Some(FALSE), <<Persisted(email, TRUE), Wrote(R250Accepted, wok)>>)
            ELSE Line(h, Some(TRUE), <<Persisted(email, TRUE), Wrote(R250Accepted, wok)>>)
    ELSE Line([h EXCEPT !.body = Append(@, unstuff(line))], None, <<>>)

handle_line(h, line, wok, pok) ==
    CASE h.state = "Start" -> line_start(h, line, wok)
      [] h.state = "MailFrom" -> line_mail_from(h, line, wok)
      [] h.state = "RcptTo" -> line_rcpt_to(h, line, wok)
      [] h.state = "Data" -> line_data(h, line, wok)
      [] h.state = "End" -> line_end(h, line, wok, pok)

(***************************************************************************)
(* SmtpHandler::handle as a state machine.  handle() can be suspended, and *)
(* another task can run, at every await: the write of the greeting, the    *)
(* read of a line, each write and the persist_email call inside            *)
(* handle_line, and the shutdown.  One step takes handle() from one await  *)
(* to the next; h_log gets an entry when the awaited operation completes.  *)
(***************************************************************************)
HandlerInit(inputs) ==
    /\ h_input \in inputs
    /\ h_lines = h_input
    /\ handler = SmtpHandler_new
    /\ h_pc = "greet"
    /\ h_log = <<>>
    /\ h_result = None
    /\ h_pending = None

ParserIdle ==
    /\ p_input = <<>>
    /\ parser = MessageParser_new(<<>>)
    /\ p_events = <<>>
    /\ p_ends = 0

\* if !self.write("220 ...").await { self.shutdown().await; return; }
\* the write of the greeting completes
HGreet ==
    /\ h_pc = "greet"
    /\ \E wok \in BOOLEAN :
          /\ h_log' = Append(h_log, Wrote(R220, wok))
          /\ h_pc' = IF wok THEN "loop" ELSE "shutdown"
    /\ UNCHANGED <<handler, h_lines, h_input, h_result, h_pending, pvars, server>>

\* the outcomes of the write and of persist_email that handle_line can meet
\* on a line: drawn only where it writes, or calls persist_email
WriteOutcomes(h, line) ==
    IF h.state = "End" /\ line # <<".">> THEN {TRUE} ELSE BOOLEAN
PersistOutcomes(h, line) ==
    IF h.state = "End" /\ line = <<".">> THEN BOOLEAN ELSE {TRUE}

\* self at the first await of handle_line(line): the assignments handle_line
\* makes before it (self.state = MailFrom before the write of 250 Hello,
\* self.from and self.to before the write of 250 OK).  A write that fails
\* makes handle_line return at once, so these are the assignments of the
\* call whose write fails.
handle_line_suspended(h, line) == handle_line(h, line, FALSE, FALSE)

\* Ok(Some(line)): handle_line(line.trim()) runs up to its first await, or to
\* its end when it awaits nothing (a data line is stored), or panics
HReadLine ==
    /\ h_pc = "loop"
    /\ h_lines # <<>>
    /\ Head(h_lines) # IOError
    /\ LET line == trim(Head(h_lines))
           r == handle_line_suspended(handler, line)
       IN /\ handler' = r.h
          /\ h_lines' = Tail(h_lines)
          /\ IF r.log = <<>>
             THEN UNCHANGED <<h_log, h_pc, h_pending>> /\ h_result' = r.ret
             ELSE IF r.log[1].op = "panic"
             THEN /\ h_log' = h_log \o r.log
                  /\ h_pc' = "done"
                  /\ UNCHANGED <<h_result, h_pending>>
             ELSE /\ h_pending' = Some([h |-> handler, line |-> line, done |-> 0])
                  /\ h_pc' = "await"
                  /\ UNCHANGED <<h_log, h_result>>
    /\ UNCHANGED <<h_input, pvars, server>>

\* the write or the persist_email call that handle_line awaits completes;
\* handle_line goes on to its next await, or returns: None goes back to the
\* read of the next line, Some(_) leaves the loop for the shutdown
HAwait ==
    /\ h_pc = "await"
    /\ LET pd == h_pending[1]
       IN \E wok \in WriteOutcomes(pd.h, pd.line), pok \in PersistOutcomes(pd.h, pd.line) :
             LET r == handle_line(pd.h, pd.line, wok, pok)
                 k == pd.done
             IN /\ \A i \in 1..k : r.log[i] = h_log[Len(h_log) - k + i]
                /\ h_log' = Append(h_log, r.log[k + 1])
                /\ IF k + 1 = Len(r.log)
                   THEN /\ handler' = r.h
                        /\ h_result' = r.ret
                        /\ h_pending' = None
                        /\ h_pc' = IF r.ret # None THEN "shutdown" ELSE "loop"
                   ELSE /\ h_pending' = Some([pd EXCEPT !.done = k + 1])
                        /\ UNCHANGED <<handler, h_result, h_pc>>
    /\ UNCHANGED <<h_lines, h_input, pvars, server>>

\* Err(e): self.shutdown().await; return
\* (HReadError_with_reply is HReadError writing a 500 reply before the shutdown)
HReadError_with_reply ==
    /\ h_pc = "loop"
    /\ h_lines # <<>>
    /\ Head(h_lines) = IOError
    /\ h_lines' = Tail(h_lines)
    /\ h_log' = Append(h_log, Wrote(R500, TRUE))
    /\ h_pc' = "shutdown"
    /\ UNCHANGED <<handler, h_input, h_result, h_pending, pvars, server>>

HReadError ==
    /\ h_pc = "loop"
    /\ h_lines # <<>>
    /\ Head(h_lines) = IOError
    /\ h_lines' = Tail(h_lines)
    /\ h_pc' = "shutdown"
    /\ UNCHANGED <<handler, h_log, h_input, h_result, h_pending, pvars, server>>

\* Ok(None): break; self.shutdown().await
\* (HEndOfInput_no_shutdown is HEndOfInput leaving the loop without the shutdown)
HEndOfInput_no_shutdown ==
    /\ h_pc = "loop"
    /\ h_lines = <<>>
    /\ h_pc' = "done"
    /\ UNCHANGED <<handler, h_lines, h_log, h_input, h_result, h_pending, pvars, server>>

HEndOfInput ==
    /\ h_pc = "loop"
    /\ h_lines = <<>>
    /\ h_pc' = "shutdown"
    /\ UNCHANGED <<handler, h_lines, h_log, h_input, h_result, h_pending, pvars, server>>

\* self.shutdown().await completes; handle() returns
HShutdown ==
    /\ h_pc = "shutdown"
    /\ h_log' = Append(h_log, ShutDown)
    /\ h_pc' = "done"
    /\ UNCHANGED <<handler, h_lines, h_input, h_result, h_pending, pvars, server>>

HandlerNext ==
    HGreet \/ HReadLine \/ HAwait \/ HReadError \/ HEndOfInput \/ HShutdown

(***************************************************************************)
(* The parser as a state machine: every step is one call of next().        *)
(***************************************************************************)
ParserInit(inputs) ==
    /\ p_input \in inputs
    /\ parser = MessageParser_new(p_input)
    /\ p_events = <<>>
    /\ p_ends = 0

Panicked == p_events # <<>> /\ p_events[Len(p_events)].tag = "Panic"

\* one call of next() by the consumer of the iterator; None is recorded as
\* the value [tag |-> "None"]
ParserNext ==
    /\ ~Panicked
    /\ parser.lines = <<>> => p_ends < MaxEnds
    /\ LET r == next(parser)
       IN /\ parser' = r.p
          /\ p_events' = Append(p_events, unwrap_or(r.out, Ev("None", <<>>)))
          /\ p_ends' = IF parser.lines = <<>> THEN p_ends + 1 ELSE p_ends
    /\ UNCHANGED <<p_input, hvars, server>>

Init == ParserInit(ParserInputs) /\ HandlerIdle /\ ServerIdle
Next == ParserNext
Spec == Init /\ [][Next]_vars

(***************************************************************************)
(* Inputs of the handler: the commands of a single-recipient dialog and    *)
(* then up to MaxHeaderLines lines of a header block, possibly the empty   *)
(* line, up to MaxBodyLines body lines and the terminator, the end of the  *)
(* input or a read error; and every beginning of the command sequences of  *)
(* the parser's dialogs, ending with the end of input or a read error.     *)
(***************************************************************************)
HCommands == <<L_HELO, L_MAIL_S, L_RCPT_R, L_DATA>>
HHeaderLines == {L_SUBJECT_HI, L_CC, L_SECOND}
HBodyLines == {L_HELLO, L_DOT_FOO, L_SP_DOT}

HDataBlocks ==
    {h \o e \o b \o t :
        h \in SeqsUpTo(HHeaderLines, MaxHeaderLines), e \in {<<>>, <<L_EMPTY>>},
        b \in SeqsUpTo(HBodyLines, MaxBodyLines),
        t \in {<<>>, <<L_DOT>>, <<IOError>>}}

HandlerInputs ==
    {HCommands \o d : d \in HDataBlocks}
    \cup UNION {{pre, pre \o <<IOError>>} : pre \in UNION {Prefixes(c) : c \in Commands}}

HandlerSpecInit == HandlerInit(HandlerInputs) /\ ParserIdle /\ ServerIdle
HandlerSpec == HandlerSpecInit /\ [][HandlerNext]_vars

\* Inputs for the header block, as in test_headers: fixed commands, then up
\* to MaxHeaderLines lines of the test table, then the end of the block
HeaderTable ==
    {L_SUBJECT_TEST, L_SUBJECT_TEST_NOSP, L_SUBJECT_TEST_TRAIL, L_SUBJECT_TEST_2SP,
     L_CC, L_SUBJECT_ONLY, L_SUBJECT_SP, L_TEST, L_SUBJECT_FIRST, L_SECOND,
     L_SPACE, L_TAB_SECOND}

HeaderCommands == <<L_HELO, L_MAIL_NULL, L_RCPT_R, L_DATA>>

HeaderInputs ==
    {HeaderCommands \o h \o t :
        h \in SeqsUpTo(HeaderTable, MaxHeaderLines),
        t \in {<<>>, <<L_EMPTY>>, <<L_EMPTY, L_HELLO, L_DOT>>}}

HeaderInit == ParserInit(HeaderInputs) /\ HandlerIdle /\ ServerIdle
HeaderSpec == HeaderInit /\ [][Next]_vars

(***************************************************************************)
(* What the claims speak about, read off the input alone.                  *)
(***************************************************************************)
\* the address a command line of the model carries (None: the null sender)
AddressOf(line) ==
    CASE line = L_MAIL_S -> Some(A_S)
      [] line = L_MAIL_NULL -> None
      [] line = L_RCPT_R -> Some(A_R)
      [] line = L_RCPT_T -> Some(A_T)
      [] OTHER -> None

\* the index of the DATA line of a dialog, or 0
RECURSIVE DataIndex(_, _)
DataIndex(input, i) ==
    IF i > Len(input) THEN 0
    ELSE IF input[i] = L_DATA THEN i ELSE DataIndex(input, i + 1)

\* the lines after DATA
DataOf(input) ==
    IF DataIndex(input, 1) = 0 THEN <<>>
    ELSE SubSeq(input, DataIndex(input, 1) + 1, Len(input))

\* the addresses of the RCPT TO lines of a dialog, in submission order
RecipientsOf(input) ==
    [i \in 1..(DataIndex(input, 1) - 3) |-> AddressOf(input[i + 2])[1]]

\* the index of the first empty line of a data block, or 0
RECURSIVE EmptyIndex(_, _)
EmptyIndex(d, i) ==
    IF i > Len(d) THEN 0 ELSE IF d[i] = <<>> THEN i ELSE EmptyIndex(d, i + 1)

IsFieldLine(l) == l # <<>> /\ ~IsWhitespace(l[1]) /\ IndexOf(l, ":", 1) # 0
IsContinuationLine(l) == l # <<>> /\ l[1] \in {" ", "\t"}
IsPlainText(l) == l # <<>> /\ ~IsWhitespace(l[1]) /\ IndexOf(l, ":", 1) = 0 /\ l # L_DOT

\* a header block: header fields, each possibly followed by continuation lines
IsHeaderBlock(h) ==
    /\ h # <<>>
    /\ IsFieldLine(h[1])
    /\ \A i \in 1..Len(h) : IsFieldLine(h[i]) \/ IsContinuationLine(h[i])

\* the data of a well-formed dialog: either a header block, the empty line
\* and the body lines, or (no header block) body lines that start with a
\* line of plain text; then the terminator, which occurs nowhere else
WellFormedData(d) ==
    /\ d # <<>>
    /\ d[Len(d)] = L_DOT
    /\ \A i \in 1..(Len(d) - 1) : d[i] # L_DOT
    /\ LET e == EmptyIndex(d, 1)
       IN \/ e > 1 /\ IsHeaderBlock(SubSeq(d, 1, e - 1))
          \/ IsPlainText(d[1])

WellFormed(input) == input \in Dialogs /\ WellFormedData(DataOf(input))

\* the body lines of a well-formed data block, as submitted
BodyLinesOf(d) ==
    IF IsPlainText(d[1]) THEN SubSeq(d, 1, Len(d) - 1)
    ELSE SubSeq(d, EmptyIndex(d, 1) + 1, Len(d) - 1)

\* the events up to and including the first Done
RECURSIVE UpToDone(_)
UpToDone(events) ==
    IF events = <<>> THEN <<>>
    ELSE IF Head(events).tag = "Done" THEN <<Head(events)>>
    ELSE <<Head(events)>> \o UpToDone(Tail(events))

\* events is a beginning of: From, To(r[1]) .. To(r[n]), Header*, Body, Done
IsDialogEvents(events, r) ==
    \A i \in 1..Len(events) :
        LET e == events[i]
            n == Len(r)
        IN /\ i = 1 => e.tag = "From"
           /\ (1 < i /\ i <= n + 1) => e = Ev("To", r[i - 1])
           /\ i > n + 1 => /\ e.tag \in {"Header", "Body", "Done"}
                           /\ e.tag = "Header" => events[i - 1].tag \in {"To", "Header"}
                           /\ e.tag = "Body" => events[i - 1].tag \in {"To", "Header"}
                           /\ e.tag = "Done" => events[i - 1].tag = "Body"

ParserAtEnd == parser.lines = <<>> /\ p_ends > 0

(***************************************************************************)
(* Claims about MessageParser.                                             *)
(***************************************************************************)
\* C1: for every well-formed dialog the values of next() are one From, one
\* To per RCPT TO line in submission order, zero or more Header, one Body
\* and Done, with no error in between; all of them have been returned when
\* next() was answered at the end of the input.
C1_WellFormedDialogEvents ==
    WellFormed(p_input) =>
        /\ IsDialogEvents(UpToDone(p_events), RecipientsOf(p_input))
        /\ ParserAtEnd => p_events[Len(p_events)].tag = "Done"

\* C5: the end-to-end scenario yields sender s@a.com, recipients [r@b.com],
\* headers [("Subject", "Hi")], body ["Hello"] and ends with Done.
ScenarioInput ==
    <<L_HELO, L_MAIL_S, L_RCPT_R, L_DATA, L_SUBJECT_HI, L_EMPTY, L_HELLO, L_DOT>>

C5_EndToEndScenario ==
    (p_input = ScenarioInput /\ ParserAtEnd) =>
        /\ parser.from = Some(A_S)
        /\ into_vec(parser.to) = <<A_R>>
        /\ parser.headers = << <<<<"S", "u", "b", "j", "e", "c", "t">>, <<"H", "i">>>> >>
        /\ parser.body = <<L_HELLO>>
        /\ p_events[Len(p_events)].tag = "Done"

\* C10: when the data starts with a line of plain text (no header block),
\* the data lines are the body: the values of next() are From, To,
\* Body(the data lines before the terminator) and Done, with no error.
NoHeaderDialog(input) ==
    /\ WellFormed(input)
    /\ IsPlainText(DataOf(input)[1])
    /\ Len(RecipientsOf(input)) = 1

C10_NoHeaderBlockIsBody ==
    (NoHeaderDialog(p_input) /\ ParserAtEnd) =>
        UpToDone(p_events) =
            <<Ev("From", AddressOf(p_input[2])),
              Ev("To", RecipientsOf(p_input)[1]),
              Ev("Body", BodyLinesOf(DataOf(p_input))),
              Ev("Done", <<>>)>>

\* the header block of an input of test_headers: the lines after the four
\* commands, up to the first empty line
HeaderBlockOf(input) ==
    LET d == SubSeq(input, Len(HeaderCommands) + 1, Len(input))
        e == EmptyIndex(d, 1)
    IN IF e = 0 THEN d ELSE SubSeq(d, 1, e - 1)

\* the header block is complete: the empty line after it has been consumed
HeaderBlockClosed ==
    /\ EmptyIndex(p_input, 1) # 0
    /\ parser.state \in {"Body", "End"}

\* a header value as written after the colon, less one leading space
StripOneSpace(rest) == IF rest # <<>> /\ rest[1] = " " THEN Tail(rest) ELSE rest

FieldName(l) == SubSeq(l, 1, IndexOf(l, ":", 1) - 1)
FieldRest(l) == SubSeq(l, IndexOf(l, ":", 1) + 1, Len(l))

IsHeaderEvent(e) == e.tag = "Header"

\* C7: after DATA the parser returns one Header(name, value) event per header
\* field of the block, in the order received, and afterwards parser.headers is
\* the same list of pairs.
C7_HeaderEventPerField ==
    (IsHeaderBlock(HeaderBlockOf(p_input)) /\ HeaderBlockClosed) =>
        LET hs == SelectSeq(p_events, IsHeaderEvent)
            fields == SelectSeq(HeaderBlockOf(p_input), IsFieldLine)
        IN /\ Len(hs) = Len(fields)
           /\ \A i \in 1..Len(hs) : hs[i].val[1] = FieldName(fields[i])
           /\ parser.headers = [i \in 1..Len(hs) |-> hs[i].val]

\* C8: for a single-line header "Name:rest" the recorded value is rest with
\* exactly one leading space removed when there is one, else rest unchanged.
C8_SingleLineHeaderValue ==
    LET h == HeaderBlockOf(p_input)
    IN (Len(h) = 1 /\ IsFieldLine(h[1]) /\ HeaderBlockClosed) =>
           parser.headers = << <<FieldName(h[1]), StripOneSpace(FieldRest(h[1]))>> >>

\* C9: a line of the header block that starts with a space or tab while a
\* header is open continues that header: its content after one leading
\* whitespace character is joined to the value with a single space.
C9_HeaderFolding ==
    LET h == HeaderBlockOf(p_input)
    IN (Len(h) = 2 /\ IsFieldLine(h[1]) /\ IsContinuationLine(h[2]) /\ HeaderBlockClosed) =>
           parser.headers =
               << <<FieldName(h[1]),
                    StripOneSpace(FieldRest(h[1])) \o <<" ">> \o Tail(h[2])>> >>

(***************************************************************************)
(* Claims about SmtpHandler.                                               *)
(***************************************************************************)
\* the items handle() has read so far
Consumed == SubSeq(h_input, 1, Len(h_input) - Len(h_lines))

IsWrite(x) == x.op = "write"
IsPersist(x) == x.op = "persist"
IsShutdown(x) == x.op = "shutdown"

PersistCalls == {i \in 1..Len(h_log) : IsPersist(h_log[i])}
Replies(log) == [i \in 1..Len(SelectSeq(log, IsWrite)) |-> SelectSeq(log, IsWrite)[i].reply]
AllOk == \A i \in 1..Len(h_log) : h_log[i].ok

\* handle() has written the replies `before`, and is ending with the reply
\* `last`: it is awaiting the write of `last`, or has written it and is about
\* to shut the stream down, or has shut the stream down and returned
EndsWithReply(before, last) ==
    /\ h_pc \in {"await", "shutdown", "done"}
    /\ h_pc = "await" => Replies(h_log) = before
    /\ h_pc # "await" => Replies(h_log) = before \o <<last>>
    /\ h_pc = "done" <=> (h_log # <<>> /\ h_log[Len(h_log)] = ShutDown)
    /\ Len(SelectSeq(h_log, IsShutdown)) <= 1

\* the replies that accept HELO/EHLO, MAIL FROM, RCPT TO and DATA, after the greeting
AcceptReplies == <<R220, R250Hello, R250, R250, R354>>

\* persist_email was called at most once, and only after HELO/EHLO, MAIL
\* FROM, RCPT TO and DATA were accepted in that order (each write succeeded)
\* and the line just read is a terminator by the test isTerminator; a
\* connection that has ended without having read such a line has not called
\* persist_email
PersistOnlyAfter(isTerminator(_)) ==
    /\ Cardinality(PersistCalls) <= 1
    /\ \A i \in PersistCalls :
          /\ SelectSeq(SubSeq(h_log, 1, i - 1), IsWrite)
                = [k \in 1..5 |-> Wrote(AcceptReplies[k], TRUE)]
          /\ Len(Consumed) >= 5
          /\ Consumed[1] \in Greetings
          /\ Consumed[2] \in MailFroms
          /\ Consumed[3] \in RcptTos
          /\ Consumed[4] = L_DATA
          /\ isTerminator(Consumed[Len(Consumed)])
    /\ (h_pc = "done" /\ \A k \in 1..Len(Consumed) : ~isTerminator(Consumed[k]))
          => PersistCalls = {}

\* the received line is exactly "."
IsDotLine(l) == l = L_DOT
\* the line that handle() passes to handle_line is "."
IsDotOnceTrimmed(l) == l # IOError /\ trim(l) = L_DOT

\* C2: persist_email is called at most once, and only after HELO/EHLO,
\* MAIL FROM, RCPT TO and DATA were accepted in that order (each write
\* succeeded) and the terminator line "." was received: the line just read
\* is exactly "."; a connection that has ended without having received a
\* line that is exactly "." has not called persist_email.
C2_PersistOnlyCompleted == PersistOnlyAfter(IsDotLine)

\* what holds instead: the same with the line that handle() passes to
\* handle_line, which is the received line less its leading and trailing
\* whitespace, in the place of the received line
PersistOnlyAfterTrimmedDot == PersistOnlyAfter(IsDotOnceTrimmed)

PersistOnlyWitness ==
    /\ h_pc = "done"
    /\ PersistCalls # {}
    /\ Len(handler.body) >= 2

\* a single-recipient dialog with valid mailboxes that ends with the terminator
HWellFormed(input) ==
    /\ Len(input) > Len(HCommands)
    /\ SubSeq(input, 1, Len(HCommands)) = HCommands
    /\ input[Len(input)] = L_DOT
    /\ \A k \in 1..Len(input) : input[k] # IOError

Min(a, b) == IF a < b THEN a ELSE b

C4_AcceptAfterPersist ==
    /\ \A i \in 1..Len(h_log) :
          (IsWrite(h_log[i]) /\ h_log[i].reply = R250Accepted) =>
              i > 1 /\ IsPersist(h_log[i - 1]) /\ h_log[i - 1].ok
    /\ \A i \in PersistCalls :
          ~h_log[i].ok =>
              /\ \A j \in 1..Len(h_log) : h_log[j].reply # R250Accepted
              /\ \A j \in 1..Len(h_log) : h_log[j].op # "panic"
              /\ h_pc \in {"await", "shutdown", "done"}
              /\ h_pc = "await" <=> i = Len(h_log)
              /\ i < Len(h_log) =>
                    /\ IsWrite(h_log[i + 1]) /\ h_log[i + 1].reply = R550
                    /\ h_result = Some(FALSE)
              /\ h_pc = "shutdown" => Len(h_log) = i + 1
              /\ h_pc = "done" => Len(h_log) = i + 2 /\ h_log[i + 2] = ShutDown

C4_Witness ==
    /\ h_pc = "done"
    /\ \E i \in PersistCalls :
          /\ i + 2 = Len(h_log)
          /\ ~h_log[i].ok /\ h_log[i + 1] = Wrote(R550, TRUE) /\ h_log[i + 2] = ShutDown

\* the data lines of a dialog of the handler
HDataOf(input) == SubSeq(input, Len(HCommands) + 1, Len(input))

\* a well-formed dialog: the commands, "name: value" lines, the empty line,
\* the body lines and the terminator
HWellFormedMessage(input) ==
    /\ HWellFormed(input)
    /\ LET d == HDataOf(input)
           e == EmptyIndex(d, 1)
       IN /\ e # 0
          /\ \A k \in 1..(e - 1) : IsFieldLine(d[k])

\* the "name: value" lines before the first empty line, name and value trimmed
HeadersOf(d) ==
    [k \in 1..(EmptyIndex(d, 1) - 1) |-> <<trim(FieldName(d[k])), trim(FieldRest(d[k]))>>]

\* the value of the first header called Subject, ignoring case; else empty
RECURSIVE SubjectOf(_)
SubjectOf(headers) ==
    IF headers = <<>> THEN <<>>
    ELSE IF to_ascii_uppercase(Head(headers)[1]) = <<"S", "U", "B", "J", "E", "C", "T">>
    THEN Head(headers)[2]
    ELSE SubjectOf(Tail(headers))

\* every line followed by CRLF
RECURSIVE WithCrLf(_)
WithCrLf(lines) ==
    IF lines = <<>> THEN <<>> ELSE Head(lines) \o <<"\r", "\n">> \o WithCrLf(Tail(lines))

\* the data lines after the first empty line, before the final terminator
RawBodyOf(d) == SubSeq(d, EmptyIndex(d, 1) + 1, Len(d) - 1)

\* the index of the first line of d, after index i, that is "." once trimmed
RECURSIVE TerminatorIndex(_, _)
TerminatorIndex(d, i) ==
    IF i > Len(d) THEN 0
    ELSE IF trim(d[i]) = L_DOT THEN i ELSE TerminatorIndex(d, i + 1)

\* the data lines after the first empty line up to the first line that is
\* "." once trimmed, each trimmed and then less one leading dot
StoredBodyOf(d) ==
    LET e == EmptyIndex(d, 1)
        t == TerminatorIndex(d, e + 1)
    IN [k \in 1..(t - e - 1) |-> unstuff(trim(d[e + k]))]

\* C6 as claimed: the NewEmail passed to persist_email has the MAIL FROM and
\* RCPT TO addresses, the trimmed "name: value" lines as headers, the Subject
\* value as subject, and as body every data line after the first empty line,
\* each followed by CRLF.
C6_PersistedEmailAsClaimed ==
    HWellFormedMessage(h_input) =>
        \A i \in PersistCalls :
            h_log[i].email =
                [from |-> A_S,
                 to |-> A_R,
                 subject |-> SubjectOf(HeadersOf(HDataOf(h_input))),
                 headers |-> HeadersOf(HDataOf(h_input)),
                 body |-> WithCrLf(RawBodyOf(HDataOf(h_input)))]

\* what the handler passes to persist_email instead: the body is made of
\* the data lines after the first empty line up to the first line that is
\* "." once its surrounding whitespace is removed, each with its surrounding
\* whitespace and then one leading dot removed, each followed by CRLF
PersistedEmailOfTrimmedLines ==
    HWellFormedMessage(h_input) =>
        \A i \in PersistCalls :
            h_log[i].email =
                [from |-> A_S,
                 to |-> A_R,
                 subject |-> SubjectOf(HeadersOf(HDataOf(h_input))),
                 headers |-> HeadersOf(HDataOf(h_input)),
                 body |-> WithCrLf(StoredBodyOf(HDataOf(h_input)))]

PersistedEmailWitness ==
    /\ HWellFormedMessage(h_input)
    /\ \E i \in PersistCalls :
          /\ Len(h_log[i].email.headers) = 2
          /\ h_log[i].email.body = WithCrLf(<<L_HELLO, Tail(L_DOT_FOO)>>)

(***************************************************************************)
(* MessageParser and SmtpHandler fed the same lines: each runs on its own  *)
(* copy of the input, the steps of the two interleave.                     *)
(***************************************************************************)
BothInit(inputs) == ParserInit(inputs) /\ HandlerInit({p_input}) /\ ServerIdle
BothNext == ParserNext \/ HandlerNext

(***************************************************************************)
(* The body phase: fixed commands and a closed header block, then up to    *)
(* MaxBodyLines lines and the terminator, the end of input or a read error.*)
(***************************************************************************)
L_DOTS3 == <<".", ".", ".">>

BodyCommands == <<L_HELO, L_MAIL_S, L_RCPT_R, L_DATA, L_SUBJECT_HI, L_EMPTY>>
BodyVocabulary == {L_HELLO, L_DOT_FOO, L_DOTS3, L_SP_DOT, L_DOT}

BodyInputs ==
    {BodyCommands \o b \o t :
        b \in SeqsUpTo(BodyVocabulary, MaxBodyLines),
        t \in {<<>>, <<L_DOT>>, <<IOError>>}}

BodyInit == BothInit(BodyInputs)
BodySpec == BodyInit /\ [][BothNext]_vars

\* the lines among the items s (the read errors left out)
IsLine(x) == x # IOError
LinesOf(s) == SelectSeq(s, IsLine)

\* the lines the parser has read after the empty line that closes the headers
ParserBodyRead ==
    LinesOf(SubSeq(p_input, Len(BodyCommands) + 1, Len(p_input) - Len(parser.lines)))

\* the lines the handler has read after DATA
HandlerDataRead ==
    LinesOf(SubSeq(h_input, DataIndex(h_input, 1) + 1, Len(h_input) - Len(h_lines)))

\* what is stored for a line that is not the terminator, in the claim's words
StoredLine(l) == IF Len(l) > 1 /\ l[1] = "." THEN Tail(l) ELSE l

\* the index of the first line of s that is exactly ".", or 0
RECURSIVE DotIndex(_, _)
DotIndex(s, i) ==
    IF i > Len(s) THEN 0 ELSE IF s[i] = L_DOT THEN i ELSE DotIndex(s, i + 1)

\* what is stored of the lines s: the lines before the first ".", each less
\* one leading dot
StoredLines(s) ==
    LET t == DotIndex(s, 1)
        n == IF t = 0 THEN Len(s) ELSE t - 1
    IN [k \in 1..n |-> StoredLine(s[k])]

TrimAll(s) == [k \in 1..Len(s) |-> trim(s[k])]

\* the body phase of the parser: the body is the lines read before the first
\* ".", each less one leading dot, and the phase has ended (state End) exactly
\* when a "." was read
ParserBodyPhase ==
    /\ parser.body = StoredLines(ParserBodyRead)
    /\ parser.state = "End" <=> DotIndex(ParserBodyRead, 1) # 0

\* C11 as claimed: in the parser and in the handler a data line that begins
\* with "." and is longer is stored less one leading dot, a line that does
\* not begin with "." is stored unchanged, and the line "." is not stored and
\* ends the data phase (the handler then calls persist_email).
C11_DotUnstuffingAsClaimed ==
    /\ ParserBodyPhase
    /\ handler.body = StoredLines(HandlerDataRead)
    /\ PersistCalls # {} <=> DotIndex(HandlerDataRead, 1) # 0

\* C11 over the trimmed lines: as claimed for the parser; for the handler the
\* same holds of every data line once its leading and trailing whitespace is
\* removed.
C11_DotUnstuffing ==
    /\ ParserBodyPhase
    /\ handler.body = StoredLines(TrimAll(HandlerDataRead))
    /\ PersistCalls # {} <=> DotIndex(TrimAll(HandlerDataRead), 1) # 0

C11_Witness ==
    /\ parser.state = "End"
    /\ parser.body = <<Tail(L_DOT_FOO), Tail(L_DOTS3)>>
    /\ PersistCalls # {}
    /\ handler.body = <<L_SUBJECT_HI, L_EMPTY, Tail(L_DOT_FOO), Tail(L_DOTS3)>>

(***************************************************************************)
(* The address of MAIL FROM and RCPT TO: a greeting, one line of the table *)
(* of MAIL FROM forms, one line of the table of RCPT TO forms, and then    *)
(* the end of input, a read error or DATA and a message; and the           *)
(* beginnings of these dialogs.                                            *)
(***************************************************************************)
KW_MAIL == <<"M", "A", "I", "L", " ", "F", "R", "O", "M", ":">>
KW_RCPT == <<"R", "C", "P", "T", " ", "T", "O", ":">>
A_MIXED == <<"A", "l", ".", "b", "+", "c", "@", "D", ".", "o", "r", "g">>
A_BAD == <<"n", "o", "t", "-", "a", "n", "-", "a", "d", "d", "r", "e", "s", "s">>
P_PARAM == <<" ", "p", "a", "r", "a", "m", "=", "v", "a", "l", "u", "e">>

Bracketed(a) == <<"<">> \o a \o <<">">>

SenderAddresses == {A_S, A_MIXED}
RecipientAddresses == {A_R, A_MIXED}

\* the forms of a MAIL FROM line for the address a
MailSpaced(a) == KW_MAIL \o <<" ">> \o Bracketed(a)
MailTight(a) == KW_MAIL \o Bracketed(a)
MailWithParam(a) == KW_MAIL \o <<" ">> \o Bracketed(a) \o P_PARAM
MailBare(a) == KW_MAIL \o a
MailOpenOnly(a) == KW_MAIL \o <<"<">> \o a
MailCloseOnly(a) == KW_MAIL \o a \o <<">">>
\* a form feed before the mailbox, a no-break space and a parameter after it
MailFormFeed(a) == KW_MAIL \o <<"\f">> \o Bracketed(a) \o <<"U+00A0", "x">>

\* the forms of a RCPT TO line for the address a
RcptSpaced(a) == KW_RCPT \o <<" ">> \o Bracketed(a)
RcptTight(a) == KW_RCPT \o Bracketed(a)
RcptBare(a) == KW_RCPT \o a

NullSenderLines == {KW_MAIL \o <<"<", ">">>, KW_MAIL \o <<" ", "<", ">">>}
NoTokenMailLines == {KW_MAIL, KW_MAIL \o <<" ">>}

MailTable ==
    UNION {{MailSpaced(a), MailTight(a), MailWithParam(a), MailBare(a),
            MailOpenOnly(a), MailCloseOnly(a)} : a \in SenderAddresses}
    \cup NullSenderLines \cup NoTokenMailLines
    \cup {MailTight(A_BAD), MailBare(A_BAD), MailFormFeed(A_MIXED)}

RcptTable ==
    UNION {{RcptSpaced(a), RcptTight(a), RcptBare(a)} : a \in RecipientAddresses}
    \cup {KW_RCPT \o <<"<", ">">>, KW_RCPT, RcptTight(A_BAD)}

MessageTail == <<L_DATA, L_SUBJECT_HI, L_EMPTY, L_HELLO, L_DOT>>

AddressInputs ==
    {<<L_HELO, m, r>> \o t :
        m \in MailTable, r \in RcptTable, t \in {<<>>, <<IOError>>, MessageTail}}
    \cup {<<L_HELO, m>> : m \in MailTable}

AddressInit == BothInit(AddressInputs)
AddressSpec == AddressInit /\ [][BothNext]_vars

\* the line is a RCPT TO line with the address a in angle brackets
IsBracketedRcpt(line, a) == line \in {RcptSpaced(a), RcptTight(a)}

(***************************************************************************)
(* Claims about the addresses of MAIL FROM and RCPT TO.                    *)
(***************************************************************************)
\* C12: when the line after the greeting is "MAIL FROM:<>" or
\* "MAIL FROM: <>", the first value of next() is From(None), not an error,
\* the stored sender is None, the parser is then in the state that takes
\* RCPT TO, and a following RCPT TO line with a bracketed valid address
\* yields To with that address.
C12_NullSenderParsed ==
    (Len(p_input) >= 2 /\ p_input[1] = L_HELO /\ p_input[2] \in NullSenderLines) =>
        /\ parser.from = None
        /\ Len(p_events) >= 1 => p_events[1] = Ev("From", None)
        /\ Len(p_events) = 1 => parser.state = "MailFrom"
        /\ \A a \in RecipientAddresses :
              (Len(p_events) >= 2 /\ Len(p_input) >= 3 /\ IsBracketedRcpt(p_input[3], a))
                  => p_events[2] = Ev("To", a)

C12_Witness ==
    /\ p_input[2] = KW_MAIL \o <<" ", "<", ">">>
    /\ Len(p_events) = 2
    /\ p_events[1] = Ev("From", None)
    /\ p_events[2] = Ev("To", A_MIXED)

\* C13: when the line after the greeting is "MAIL FROM:<>" or
\* "MAIL FROM: <>" and every write succeeds, the handler, once it has
\* replied to the line, has replied 250 to it (not 501), is in the state
\* that takes RCPT TO and goes on reading.
C13_NullSenderAccepted ==
    (/\ Len(h_input) >= 2
     /\ h_input[1] = L_HELO
     /\ h_input[2] \in NullSenderLines
     /\ Len(Consumed) = 2
     /\ h_pc # "await"
     /\ AllOk) =>
        /\ Replies(h_log) = <<R220, R250Hello, R250>>
        /\ handler.state = "RcptTo"
        /\ h_pc = "loop"

\* C14: for every valid address a, when the line after the greeting is
\* "MAIL FROM: <a>", "MAIL FROM:<a>" or "MAIL FROM: <a> param=value", the
\* first value of next() is From(Some(a)) and the stored sender is a: the
\* three forms give the identical mailbox.
C14_MailFromForms ==
    \A a \in SenderAddresses :
        (/\ Len(p_input) >= 2
         /\ p_input[1] = L_HELO
         /\ p_input[2] \in {MailSpaced(a), MailTight(a), MailWithParam(a)}
         /\ Len(p_events) >= 1) =>
            /\ p_events[1] = Ev("From", Some(a))
            /\ parser.from = Some(a)

C14_Witness ==
    /\ p_input[2] = MailWithParam(A_MIXED)
    /\ Len(p_events) >= 1
    /\ p_events[1] = Ev("From", Some(A_MIXED))
    /\ parser.from = Some(A_MIXED)

\* the line is a MAIL FROM line with the valid address a in angle brackets
IsBracketedMail(line, a) == line \in {MailSpaced(a), MailTight(a), MailWithParam(a)}

\* C15: the angle brackets are optional.  For every valid address a the
\* parser yields From(Some(a)) for "MAIL FROM:a" and To(a) for "RCPT TO:a",
\* and the handler, every write succeeding, has replied 250 to each once
\* its reply is written and stores a as the sender and as the recipient, as
\* they do for the bracketed forms.
C15_BracketsOptional ==
    /\ \A a \in SenderAddresses :
          /\ (/\ Len(p_input) >= 2
              /\ p_input[2] = MailBare(a)
              /\ Len(p_events) >= 1) => p_events[1] = Ev("From", Some(a))
          /\ (/\ Len(h_input) >= 2
              /\ h_input[2] = MailBare(a)
              /\ Len(Consumed) = 2
              /\ h_pc # "await"
              /\ AllOk) => /\ Replies(h_log) = <<R220, R250Hello, R250>>
                           /\ handler.from = a
    /\ \A a \in RecipientAddresses :
          /\ (/\ Len(p_input) >= 3
              /\ p_input[3] = RcptBare(a)
              /\ Len(p_events) >= 2
              /\ p_events[1].tag = "From") => p_events[2] = Ev("To", a)
          /\ (/\ Len(h_input) >= 3
              /\ \E s \in SenderAddresses : IsBracketedMail(h_input[2], s)
              /\ h_input[3] = RcptBare(a)
              /\ Len(Consumed) = 3
              /\ h_pc # "await"
              /\ AllOk) => /\ Replies(h_log) = <<R220, R250Hello, R250, R250>>
                           /\ handler.to = a

\* MAIL FROM lines whose token has one angle bracket only, or is not a
\* valid address
UnmatchedBracketLines ==
    UNION {{MailOpenOnly(a), MailCloseOnly(a)} : a \in SenderAddresses}
InvalidTokenLines == {MailTight(A_BAD), MailBare(A_BAD)}

\* C16: the first value of next() after the greeting is From(None) only when
\* the MAIL FROM line has no token after the colon or the token "<>"; a
\* token with an unmatched angle bracket, or any other token that is not a
\* valid address, yields InvalidFromEmailAddress.
C16_NullSenderOnlyWhenEmpty ==
    (/\ Len(p_input) >= 2
     /\ p_input[1] = L_HELO
     /\ p_input[2] \in MailTable
     /\ Len(p_events) >= 1) =>
        /\ p_events[1] = Ev("From", None)
              => p_input[2] \in NullSenderLines \cup NoTokenMailLines
        /\ p_input[2] \in UnmatchedBracketLines \cup InvalidTokenLines
              => p_events[1].tag = "InvalidFromEmailAddress"

\* RCPT TO lines whose token is empty once the brackets are stripped
EmptyRcptLines == {KW_RCPT \o <<"<", ">">>, KW_RCPT}

\* C17: a RCPT TO line with the token "<>" or with no token is a validation
\* failure.  The parser, having accepted a MAIL FROM, yields
\* InvalidToEmailAddress for it and its recipient list and state stay as
\* they were; the handler, having accepted a MAIL FROM, replies 501 to it,
\* stores no recipient, reads no further line, persists nothing and shuts
\* the stream down.
C17_EmptyRecipientRejected ==
    /\ (/\ Len(p_input) >= 3
        /\ p_input[3] \in EmptyRcptLines
        /\ Len(p_events) >= 2
        /\ p_events[1].tag = "From") =>
            /\ p_events[2].tag = "InvalidToEmailAddress"
            /\ parser.to = NonEmptyVec_new(<<>>)
            /\ parser.state = "MailFrom"
            /\ \A i \in 1..Len(p_events) : p_events[i].tag # "To"
    /\ (/\ Len(h_input) >= 3
        /\ \E s \in SenderAddresses : IsBracketedMail(h_input[2], s)
        /\ h_input[3] \in EmptyRcptLines
        /\ Len(Consumed) >= 3) =>
            /\ h_pc \in {"await", "shutdown", "done"}
            /\ h_pc = "await" => Replies(h_log) = <<R220, R250Hello, R250>>
            /\ h_pc # "await" => Replies(h_log) = <<R220, R250Hello, R250, R501>>
            /\ h_pc = "done" <=> h_log[Len(h_log)] = ShutDown
            /\ Len(Consumed) = 3
            /\ handler.to = <<>>
            /\ PersistCalls = {}

C17_Witness ==
    /\ Len(p_input) > 3
    /\ p_input[3] = KW_RCPT
    /\ Len(p_events) = 2
    /\ p_events[2].tag = "InvalidToEmailAddress"
    /\ h_pc = "done"
    /\ h_log[Len(h_log)] = ShutDown
    /\ Replies(h_log) = <<R220, R250Hello, R250, R501>>
    /\ h_pc = "done"

(***************************************************************************)
(* Claims about several recipients.                                        *)
(***************************************************************************)
\* the number of consecutive RCPT TO lines of the input from index i on
RECURSIVE RcptCount(_, _)
RcptCount(input, i) ==
    IF i > Len(input) THEN 0
    ELSE IF input[i] \in RcptTos THEN 1 + RcptCount(input, i + 1) ELSE 0

\* C18: after a greeting and a MAIL FROM, n consecutive valid RCPT TO lines
\* yield n To events carrying their addresses in the order submitted; after
\* the k-th of them the parser is in the state RcptTo and its recipient list
\* is the first k addresses, and it keeps the n addresses from then on.
C18_RecipientsInOrder ==
    (Len(p_input) >= 2 /\ p_input[1] \in Greetings /\ p_input[2] \in MailFroms) =>
        LET n == RcptCount(p_input, 3)
            k == Min(n, Len(p_events) - 1)
        IN /\ \A i \in 1..k : p_events[i + 1] = Ev("To", AddressOf(p_input[i + 2])[1])
           /\ k >= 1 => parser.to = [i \in 1..k |-> AddressOf(p_input[i + 2])[1]]
           /\ (k >= 1 /\ Len(p_events) = k + 1) => parser.state = "RcptTo"

C18_Witness ==
    /\ parser.to = <<A_T, A_R>>
    /\ Len(p_events) >= 3
    /\ p_events[2] = Ev("To", A_T)
    /\ p_events[3] = Ev("To", A_R)
    /\ parser.state = "End"

\* C19: when the handler has accepted a MAIL FROM and a RCPT TO, a second
\* valid RCPT TO line received before DATA is replied 250 (every write
\* succeeding), its address is recorded, and the handler goes on reading in
\* a state that takes RCPT TO or DATA.
C19_RepeatedRcptAccepted ==
    (/\ Len(h_input) >= 4
     /\ h_input[1] \in Greetings
     /\ h_input[2] = L_MAIL_S
     /\ h_input[3] \in RcptTos
     /\ h_input[4] \in RcptTos
     /\ Len(Consumed) = 4
     /\ h_pc # "await"
     /\ AllOk) =>
        /\ Replies(h_log) = <<R220, R250Hello, R250, R250, R250>>
        /\ handler.to = AddressOf(h_input[4])[1]
        /\ handler.state \in {"RcptTo", "Data"}
        /\ h_pc = "loop"

(***************************************************************************)
(* The letter case of the command keywords: one dialog with two            *)
(* recipients at most, every keyword in upper, lower or mixed case, the    *)
(* sender and the first recipient a mixed-case mailbox.                    *)
(***************************************************************************)
KW_MAIL_LOWER == <<"m", "a", "i", "l", " ", "f", "r", "o", "m", ":">>
KW_RCPT_LOWER == <<"r", "c", "p", "t", " ", "t", "o", ":">>

CaseGreetings == {L_HELO, <<"h", "e", "l", "o", " ", "x">>, <<"E", "h", "L", "o", " ", "x">>}
CaseMailFroms == {KW_MAIL \o Bracketed(A_MIXED), KW_MAIL_LOWER \o Bracketed(A_MIXED)}
CaseFirstRcpts == {KW_RCPT \o Bracketed(A_MIXED), KW_RCPT_LOWER \o Bracketed(A_MIXED)}
CaseMoreRcpts == {KW_RCPT \o Bracketed(A_R), KW_RCPT_LOWER \o Bracketed(A_R)}
CaseDatas == {L_DATA, <<"d", "a", "t", "a">>, <<"D", "a", "t", "a">>}

CaseInputs ==
    {<<g, m, r>> \o more \o <<d, L_SUBJECT_HI, L_EMPTY, L_HELLO, L_DOT>> :
        g \in CaseGreetings, m \in CaseMailFroms, r \in CaseFirstRcpts,
        more \in {<<>>} \cup {<<x>> : x \in CaseMoreRcpts}, d \in CaseDatas}

CaseInit == ParserInit(CaseInputs) /\ HandlerIdle /\ ServerIdle
CaseSpec == CaseInit /\ [][Next]_vars

\* the values of next() for a dialog of CaseInputs when every keyword is
\* recognized: From, To for each recipient, Body, Done
CaseEvents(input) ==
    <<Ev("From", Some(A_MIXED)), Ev("To", A_MIXED)>>
    \o (IF Len(input) = 9 THEN <<Ev("To", A_R)>> ELSE <<>>)
    \o <<Ev("Body", <<L_HELLO>>), Ev("Done", <<>>)>>

\* C20: whatever the letter case of HELO/EHLO, MAIL FROM:, the first and the
\* second RCPT TO: and DATA, the values of next() are those of the dialog
\* with upper-case keywords, and the mailboxes keep their letter case.
C20_KeywordsAnyCase ==
    p_input \in CaseInputs =>
        \A i \in 1..Min(Len(p_events), Len(CaseEvents(p_input))) :
            p_events[i] = CaseEvents(p_input)[i]

(***************************************************************************)
(* Lines shorter than the keyword of the state they arrive in: first line, *)
(* line after the greeting, line after MAIL FROM; then the end of input, a *)
(* read error or one more line.                                            *)
(***************************************************************************)
E_ACUTE == "U+00E9"

\* lines of fewer than 4 characters
ShortGreetings ==
    {<<>>, <<"H", "E", "L">>, <<E_ACUTE, E_ACUTE>>, <<"a", E_ACUTE, E_ACUTE>>}
\* lines of fewer than 10 characters
ShortMailFroms ==
    {<<"M", "A", "I", "L">>, <<"M", "A", "I", "L", " ", "F", "R", "O", "M">>,
     <<"M", "A", "I", "L", " ", "F", "R", E_ACUTE, "M">>,
     <<"M", "A", "I", "L", " ", "F", "R", E_ACUTE, E_ACUTE>>}
\* lines of fewer than 8 characters
ShortRcptTos ==
    {<<"R", "C", "P", "T">>, <<"R", "C", "P", "T", " ", "T", "O">>,
     <<"R", "C", "P", "T", " ", "T", E_ACUTE>>,
     <<"R", "C", "P", "T", " ", E_ACUTE, E_ACUTE>>}

ShortInputs ==
    {<<x>> \o t : x \in ShortGreetings, t \in {<<>>, <<IOError>>, <<L_DATA>>}}
    \cup {<<L_HELO, x>> \o t :
            x \in ShortMailFroms, t \in {<<>>, <<IOError>>, <<L_DATA>>}}
    \cup {<<L_HELO, L_MAIL_S, x>> \o t :
            x \in ShortRcptTos, t \in {<<>>, <<IOError>>, <<L_DATA>>}}

\* the same dialogs, and those that stop before the short line
ShortDialogs == ShortInputs \cup {<<L_HELO>>, <<L_HELO, IOError>>}

ShortInit == BothInit(ShortDialogs)
ShortSpec == ShortInit /\ [][BothNext]_vars

\* the position of the short line of an input of ShortInputs
ShortIndex(input) ==
    IF input[1] # L_HELO THEN 1 ELSE IF input[2] # L_MAIL_S THEN 2 ELSE 3

\* C21: a line with fewer characters than the keyword of its state (4 for
\* the first line, 10 after the greeting, 8 after MAIL FROM) makes next()
\* return UnrecognizedCommand for it, and makes the handler reply 500 to it,
\* read no further line and shut the stream down.
C21_ShortLineUnrecognized ==
    p_input \in ShortInputs =>
        LET k == ShortIndex(p_input)
            e == IF k = 3 THEN 2 ELSE 1
        IN /\ Len(p_events) >= e => p_events[e].tag = "UnrecognizedCommand"
           /\ Len(Consumed) >= k =>
                 /\ EndsWithReply(SubSeq(AcceptReplies, 1, k), R500)
                 /\ Len(Consumed) = k

(***************************************************************************)
(* RCPT TO out of sequence: a greeting, a RCPT TO line, and then any       *)
(* beginning of a complete dialog.                                         *)
(***************************************************************************)
SequenceInputs ==
    {<<g, r>> \o cont :
        g \in Greetings, r \in RcptTos,
        cont \in Prefixes(<<L_MAIL_S, L_RCPT_R>> \o MessageTail)}

SequenceInit == ParserInit(SequenceInputs) /\ HandlerIdle /\ ServerIdle
SequenceSpec == SequenceInit /\ [][Next]_vars

\* C22: when a RCPT TO line follows the greeting, with no MAIL FROM before
\* it, the first value of next() is UnrecognizedCommand, and whatever lines
\* follow no call of next() returns Done.
C22_RcptBeforeMailNeverDone ==
    p_input \in SequenceInputs =>
        /\ Len(p_events) >= 1 => p_events[1].tag = "UnrecognizedCommand"
        /\ \A i \in 1..Len(p_events) : p_events[i].tag # "Done"

(***************************************************************************)
(* Syntax failures met by the handler: a first line that is no greeting, a *)
(* MAIL FROM or a RCPT TO with an invalid address, a line other than DATA  *)
(* after the recipient; then the end of input, a read error or further     *)
(* lines.  And the greeting alone, followed by the end or a read error,    *)
(* and one complete dialog.                                                *)
(***************************************************************************)
L_QUIT == <<"Q", "U", "I", "T">>

NoGreetingLines == {L_QUIT, L_MAIL_S, <<"H", "E", "L">>, <<"a", "a", "a", E_ACUTE>>}
InvalidMailLines == {MailTight(A_BAD), MailSpaced(A_BAD)}
InvalidRcptLines == {RcptTight(A_BAD), RcptSpaced(A_BAD)}
NotDataLines == {L_RCPT_T, L_MAIL_S, L_QUIT, L_EMPTY}

ErrorTails == {<<>>, <<IOError>>, <<L_DATA>>, MessageTail}

ErrorInputs ==
    {<<x>> \o t : x \in NoGreetingLines, t \in ErrorTails}
    \cup {<<L_HELO, x>> \o t : x \in InvalidMailLines, t \in ErrorTails}
    \cup {<<L_HELO, L_MAIL_S, x>> \o t : x \in InvalidRcptLines, t \in ErrorTails}
    \cup {<<L_HELO, L_MAIL_S, L_RCPT_R, x>> \o t : x \in NotDataLines, t \in ErrorTails}
    \cup {<<L_HELO>>, <<L_HELO, IOError>>,
          <<L_HELO, L_MAIL_S, L_RCPT_R>> \o MessageTail}

ErrorInit == HandlerInit(ErrorInputs) /\ ParserIdle /\ ServerIdle
ErrorSpec == ErrorInit /\ [][HandlerNext]_vars

\* the position of the failing line of an input of ErrorInputs (0: none)
ErrorIndex(input) ==
    IF input[1] # L_HELO THEN 1
    ELSE IF Len(input) < 2 \/ input[2] = IOError THEN 0
    ELSE IF input[2] # L_MAIL_S THEN 2
    ELSE IF input[3] # L_RCPT_R THEN 3
    ELSE IF input[4] # L_DATA THEN 4 ELSE 0

\* C23: the handler answers the failing line with the reply of its state
\* (500 for a first line that is no greeting, 501 for a MAIL FROM or RCPT
\* TO with an invalid address, 503 for a line other than DATA after the
\* recipient), stays in that state, persists nothing, reads no further line
\* and shuts the stream down.
C23_SyntaxFailureReplies ==
    (h_input \in ErrorInputs /\ ErrorIndex(h_input) # 0) =>
        LET k == ErrorIndex(h_input)
        IN Len(Consumed) >= k =>
              /\ EndsWithReply(SubSeq(AcceptReplies, 1, k), <<R500, R501, R501, R503>>[k])
              /\ handler.state = <<"Start", "MailFrom", "RcptTo", "Data">>[k]
              /\ PersistCalls = {}
              /\ Len(Consumed) = k

\* the log entry is a 5xx reply, or a reply whose write failed
IsErrorEntry(x) == IsWrite(x) /\ (x.reply \in {R500, R501, R503, R550} \/ ~x.ok)
ErrorLogged == \E i \in 1..Len(h_log) : IsErrorEntry(h_log[i])

\* C24: once the handler has written a 5xx reply, or a write of a reply has
\* failed, that write is followed by the shutdown of the stream and by
\* nothing else (no reply, no persist_email), with which handle() ends, and
\* from then on no line is read and nothing but that shutdown is done.
C24_ErrorsTerminal ==
    /\ [](\A i \in 1..Len(h_log) :
              IsErrorEntry(h_log[i]) =>
                  \/ i = Len(h_log) /\ h_pc = "shutdown"
                  \/ /\ i + 1 = Len(h_log)
                     /\ h_log[i + 1] = ShutDown
                     /\ h_pc = "done")
    /\ [][ErrorLogged =>
              /\ h_lines' = h_lines
              /\ handler' = handler
              /\ h_result' = h_result
              /\ h_log' = Append(h_log, ShutDown)
              /\ h_pc = "shutdown" /\ h_pc' = "done"]_vars

C24_Witness ==
    /\ h_pc = "done"
    /\ \E i \in 1..(Len(h_log) - 1) :
          h_log[i] = Wrote(R550, TRUE) /\ h_log[i + 1] = ShutDown

(***************************************************************************)
(* A read error in every dialog state: a beginning of a complete dialog,   *)
(* the read error, and then either nothing or the rest of the dialog.      *)
(***************************************************************************)
WholeDialog == <<L_HELO, L_MAIL_S, L_RCPT_R>> \o MessageTail

ReadErrorInputs ==
    UNION {{SubSeq(WholeDialog, 1, n) \o <<IOError>>,
            SubSeq(WholeDialog, 1, n) \o <<IOError>>
                \o SubSeq(WholeDialog, n + 1, Len(WholeDialog))} :
           n \in 0..Len(WholeDialog)}

\* the same dialogs, and the dialog without a read error, whole or cut short
ReadErrorDialogs ==
    ReadErrorInputs \cup {WholeDialog, SubSeq(WholeDialog, 1, 2)}

ReadErrorInit == BothInit(ReadErrorDialogs)
ReadErrorSpec == ReadErrorInit /\ [][BothNext]_vars

\* the position of the read error in an input of ReadErrorInputs
RECURSIVE ErrorPosition(_, _)
ErrorPosition(input, i) ==
    IF input[i] = IOError THEN i ELSE ErrorPosition(input, i + 1)

IOEvents == {i \in 1..Len(p_events) : p_events[i].tag = "IO"}

\* C25: the call of next() that meets the read error returns the IO error
\* (and no other call does).  The handler, when its read fails, has written
\* only the replies that accepted the lines before, has not called
\* persist_email, shuts the stream down once and reads nothing more.
C25_ReadErrorAborts ==
    p_input \in ReadErrorInputs =>
        LET k == ErrorPosition(p_input, 1)
            read == Len(p_input) - Len(parser.lines)
        IN /\ read < k => IOEvents = {}
           /\ read >= k => Cardinality(IOEvents) = 1
           /\ (read = k /\ p_ends = 0) => IOEvents = {Len(p_events)}
           /\ Len(Consumed) >= k =>
                 /\ Len(Consumed) = k
                 /\ h_pc \in {"shutdown", "done"}
                 /\ h_log = [i \in 1..Min(k, 5) |-> Wrote(AcceptReplies[i], TRUE)]
                            \o (IF h_pc = "done" THEN <<ShutDown>> ELSE <<>>)

C25_Witness ==
    /\ p_input \in ReadErrorInputs
    /\ ErrorPosition(p_input, 1) = 7
    /\ Len(Consumed) = 7
    /\ handler.state = "End"
    /\ h_pc = "done"
    /\ h_log[Len(h_log)] = ShutDown
    /\ parser.state = "Body"
    /\ p_events[Len(p_events)].tag = "IO"
    /\ Len(p_events) = 3

(***************************************************************************)
(* Claims about the end of the input.                                      *)
(***************************************************************************)
NoTerminator(input) == \A k \in 1..Len(input) : input[k] # L_DOT

\* C26: when the input holds no terminator line, no call of next() returns
\* Done and every call made on the exhausted input returns UnexpectedEnd,
\* whatever the state the input ended in; and whenever Done was returned,
\* the input is exhausted and holds a terminator line.
C26_UnexpectedEnd ==
    /\ NoTerminator(p_input) =>
          /\ \A i \in 1..Len(p_events) : p_events[i].tag # "Done"
          /\ p_ends >= 1 => p_events[Len(p_events)] = Ev("UnexpectedEnd", <<>>)
    /\ \A i \in 1..Len(p_events) :
          p_events[i].tag = "Done" => parser.lines = <<>> /\ ~NoTerminator(p_input)

C26_Witness ==
    /\ NoTerminator(p_input)
    /\ parser.state = "Body"
    /\ p_ends = MaxEnds
    /\ p_events[Len(p_events)] = Ev("UnexpectedEnd", <<>>)
    /\ p_events[Len(p_events) - 1] = Ev("UnexpectedEnd", <<>>)

(***************************************************************************)
(* Claims about malformed header lines.                                    *)
(***************************************************************************)
\* a non-empty line that starts with neither a space nor a tab and holds no colon
IsNoColonLine(l) == l # <<>> /\ l[1] \notin {" ", "\t"} /\ IndexOf(l, ":", 1) = 0

\* the data starts with a header field followed by a line without a colon
OpenHeaderThenNoColon(input) ==
    /\ input \in Dialogs
    /\ Len(DataOf(input)) >= 2
    /\ IsFieldLine(DataOf(input)[1])
    /\ IsNoColonLine(DataOf(input)[2])

\* C27: when the line after a header field is non-empty, starts with neither
\* a space nor a tab and holds no colon, the call of next() that reads it
\* returns InvalidHeader with that line; the line is then neither a body
\* line nor the name or a part of the value of a recorded header.
C27_NoColonLineIsInvalidHeader ==
    OpenHeaderThenNoColon(p_input) =>
        LET d == DataOf(p_input)
            e == DataIndex(p_input, 1) - 1
        IN /\ Len(p_events) >= e => p_events[e] = Ev("InvalidHeader", d[2])
           /\ Len(p_events) = e =>
                 /\ parser.body = <<>>
                 /\ parser.current_header = None
                 /\ \A j \in 1..Len(parser.headers) :
                       /\ parser.headers[j][1] = FieldName(d[1])
                       /\ Len(parser.headers[j][2]) <= Len(FieldRest(d[1]))

C27_Witness ==
    /\ OpenHeaderThenNoColon(p_input)
    /\ Len(p_events) = DataIndex(p_input, 1) - 1
    /\ p_events[Len(p_events)] = Ev("InvalidHeader", L_HELLO_WORLD)
    /\ Len(parser.headers) = 1

(***************************************************************************)
(* main (maild/src/main.rs; the same code is in src/main.rs and            *)
(* smtp/src/main.rs): the accept task, one task per connection, the        *)
(* registry active_connections behind its RwLock, and the shutdown.        *)
(* locked tells that main holds the write guard, which only main keeps     *)
(* across an await.  The accept task in "insert" and a connection task in  *)
(* "remove" wait for the guard or hold it: they change the map and drop    *)
(* the guard without an await in between.                                  *)
(***************************************************************************)
\* parked tells that the accept task is suspended in write().await: it has
\* asked for the guard while another task held it.  down tells that the
\* runtime was shut down, which happens after main has returned: until then
\* a task that is running goes on to its next suspension.
ServerRunning == ~server.down

\* listener.accept() returns Ok for the connection c; the connection task is
\* spawned, and the accept task goes on to active_connections.write().await.
\* (Also after accept_task.abort(): a task that is running is cancelled only
\* where it is next suspended.)
AcceptConn(c) ==
    /\ ServerRunning
    /\ server.accept = "accept"
    /\ server.conn[c] = "none"
    /\ server' = [server EXCEPT !.accept = "insert", !.pending = c,
                                !.conn[c] = "handling"]
    /\ UNCHANGED <<pvars, hvars>>

\* active_connections_clone.write().await returns Pending: main, or a
\* connection task that is removing its entry, holds the guard
AcceptPark ==
    /\ ServerRunning
    /\ server.accept = "insert"
    /\ ~server.parked
    /\ ~server.abort
    /\ server.locked \/ \E c \in Conns : server.conn[c] = "remove"
    /\ server' = [server EXCEPT !.parked = TRUE]
    /\ UNCHANGED <<pvars, hvars>>

\* the accept task gets the write guard: insert(addr, handle), next
\* iteration.  A suspended task that was aborted is not polled again.
AcceptInsert ==
    /\ ServerRunning
    /\ server.accept = "insert"
    /\ ~server.locked
    /\ ~(server.parked /\ server.abort)
    /\ server' = [server EXCEPT !.accept = "accept", !.pending = 0,
                                !.parked = FALSE,
                                !.registry = @ \cup {server.pending}]
    /\ UNCHANGED <<pvars, hvars>>

\* accept_task.abort() takes effect where the accept task is suspended: in
\* listener.accept().await, or in write().await, where it was suspended
\* before the abort (also when the guard is free again and the task, woken,
\* was not polled yet) or is suspended now, main or a connection task
\* holding the guard; the handle that was not inserted is dropped, its task
\* keeps running
AcceptAborted ==
    /\ ServerRunning
    /\ server.abort
    /\ \/ server.accept = "accept"
       \/ /\ server.accept = "insert"
          /\ \/ server.parked
             \/ server.locked
             \/ \E c \in Conns : server.conn[c] = "remove"
    /\ server' = [server EXCEPT !.accept = "aborted", !.pending = 0,
                                !.parked = FALSE]
    /\ UNCHANGED <<pvars, hvars>>

\* handler.handle(read_stream).await returns in the task of connection c
ConnFinish(c) ==
    /\ ServerRunning
    /\ server.conn[c] = "handling"
    /\ server' = [server EXCEPT !.conn[c] = "remove"]
    /\ UNCHANGED <<pvars, hvars>>

\* handler.handle(read_stream).await panics in the task of connection c (a
\* keyword slice that splits a character): the task ends, remove(&addr) is
\* not run, and its JoinHandle is ready with the error
ConnPanic(c) ==
    /\ ServerRunning
    /\ server.conn[c] = "handling"
    /\ server' = [server EXCEPT !.conn[c] = "finished"]
    /\ UNCHANGED <<pvars, hvars>>

\* active_connections.write().await.remove(&addr); the task ends
ConnRemove(c) ==
    /\ ServerRunning
    /\ server.conn[c] = "remove"
    /\ ~server.locked
    /\ server' = [server EXCEPT !.conn[c] = "finished", !.registry = @ \ {c}]
    /\ UNCHANGED <<pvars, hvars>>

\* signal::ctrl_c().await returns; accept_task.abort()
MainSignal ==
    /\ server.main = "ctrl_c"
    /\ server' = [server EXCEPT !.main = "lock", !.abort = TRUE]
    /\ UNCHANGED <<pvars, hvars>>

\* let mut connections = active_connections.write().await
MainLock ==
    /\ server.main = "lock"
    /\ ~server.locked
    /\ server' = [server EXCEPT !.main = "join", !.locked = TRUE]
    /\ UNCHANGED <<pvars, hvars>>

\* the for loop takes the next handle of connections.values_mut()
MainAwait(c) ==
    /\ server.main = "join"
    /\ server.await = 0
    /\ c \in server.registry \ server.joined
    /\ server' = [server EXCEPT !.await = c]
    /\ UNCHANGED <<pvars, hvars>>

\* handle.await returns: the awaited task has ended
MainJoined ==
    /\ server.main = "join"
    /\ server.await # 0
    /\ server.conn[server.await] = "finished"
    /\ server' = [server EXCEPT !.joined = @ \cup {server.await}, !.await = 0]
    /\ UNCHANGED <<pvars, hvars>>

\* the loop is over: "Server shutdown complete", main returns
MainDone ==
    /\ server.main = "join"
    /\ server.await = 0
    /\ server.registry \subseteq server.joined
    /\ server' = [server EXCEPT !.main = "done", !.locked = FALSE]
    /\ UNCHANGED <<pvars, hvars>>

\* main has returned: the runtime is shut down, and the tasks that are left
\* are dropped where they are suspended
RuntimeDown ==
    /\ server.main = "done"
    /\ ~server.down
    /\ server' = [server EXCEPT !.down = TRUE]
    /\ UNCHANGED <<pvars, hvars>>

ServerInit == ServerIdle /\ ParserIdle /\ HandlerIdle

ServerNext ==
    \/ \E c \in Conns : AcceptConn(c)
    \/ AcceptPark
    \/ AcceptInsert
    \/ AcceptAborted
    \/ \E c \in Conns : ConnFinish(c)
    \/ \E c \in Conns : ConnPanic(c)
    \/ \E c \in Conns : ConnRemove(c)
    \/ MainSignal
    \/ MainLock
    \/ \E c \in Conns : MainAwait(c)
    \/ MainJoined
    \/ MainDone
    \/ RuntimeDown

ServerSpec == ServerInit /\ [][ServerNext]_vars

\* every task that can run does run; in particular every dialog ends
\* (ConnFinish or ConnPanic).  Nothing obliges the signal or a new
\* connection to come.
ServerFairness ==
    /\ WF_vars(AcceptInsert)
    /\ WF_vars(AcceptAborted)
    /\ \A c \in Conns : WF_vars(ConnFinish(c)) /\ WF_vars(ConnRemove(c))
    /\ WF_vars(MainLock)
    /\ WF_vars(\E c \in Conns : MainAwait(c))
    /\ WF_vars(MainJoined)
    /\ WF_vars(MainDone)
    /\ WF_vars(RuntimeDown)

ServerFairSpec == ServerSpec /\ ServerFairness

\* main awaits the handle of a task that waits for the write guard main holds
MainAndTaskBlocked ==
    /\ server.main = "join"
    /\ server.locked
    /\ server.await # 0
    /\ server.conn[server.await] = "remove"

\* C28: after the shutdown signal, provided every dialog ends, main finishes
\* awaiting the recorded tasks and reaches "Server shutdown complete"; and in
\* no reachable state does main wait for a connection task while that task
\* waits for the registry lock held by main.
C28_ShutdownTerminates ==
    /\ [](~MainAndTaskBlocked)
    /\ (server.abort ~> server.main = "done")

\* a connection task that was spawned and has not ended
ConnInFlight(c) == server.conn[c] \in {"handling", "remove"}

\* C29: once the accept task is aborted, every connection task that was
\* spawned and has not finished has its handle in the registry, and main does
\* not exit while such a task still runs.
C29_InFlightRecorded ==
    /\ server.accept = "aborted" =>
           \A c \in Conns : ConnInFlight(c) => c \in server.registry
    /\ server.main = "done" => \A c \in Conns : ~ConnInFlight(c)

(***************************************************************************)
(* Dialogs whose header block has no, one or several Subject headers, in   *)
(* different spellings, for the subject that NewEmail::from_raw_message    *)
(* derives (smtp/src/email.rs).                                            *)
(***************************************************************************)
L_SUBJECT_UPPER_YO == <<"S", "U", "B", "J", "E", "C", "T", ":", " ", "Y", "o">>
L_SUBJECT_LOWER_BARE == <<"s", "u", "b", "j", "e", "c", "t">>
L_SUBJECTS_NO == <<"S", "u", "b", "j", "e", "c", "t", "s", ":", " ", "N", "o">>
SubjectHeaderLines ==
    {L_SUBJECT_HI, L_SUBJECT_UPPER_YO, L_SUBJECT_LOWER_BARE, L_SUBJECTS_NO, L_CC}

SubjectInputs ==
    {HCommands \o h \o <<L_EMPTY, L_HELLO>> \o t :
        h \in SeqsUpTo(SubjectHeaderLines, MaxHeaderLines),
        t \in {<<L_DOT>>, <<>>, <<IOError>>}}

SubjectInit == HandlerInit(SubjectInputs) /\ ParserIdle /\ ServerIdle
SubjectSpec == SubjectInit /\ [][HandlerNext]_vars

\* the positions of the headers whose name is Subject, ignoring ASCII case
SubjectPositions(headers) ==
    {k \in 1..Len(headers) :
        to_ascii_uppercase(headers[k][1]) = <<"S", "U", "B", "J", "E", "C", "T">>}

\* C30: the subject of the message built by from_raw_message is the value of
\* the first header of its header list whose name equals "Subject" ignoring
\* ASCII case, and the empty string when there is none; later Subject headers
\* do not change it.
C30_SubjectIsFirstSubjectHeader ==
    \A i \in PersistCalls :
        LET email == h_log[i].email
            at == SubjectPositions(email.headers)
        IN IF at = {}
           THEN email.subject = <<>>
           ELSE \E k \in at :
                   /\ \A j \in at : k <= j
                   /\ email.subject = email.headers[k][2]

\* a message with two Subject headers of different values was built
C30_Witness ==
    \E i \in PersistCalls :
        LET email == h_log[i].email
            at == SubjectPositions(email.headers)
        IN /\ Cardinality(at) = 2
           /\ \E j, k \in at :
                 j < k /\ email.headers[j][2] # email.headers[k][2]
                       /\ email.headers[j][2] # <<>>

(***************************************************************************)
(* Header blocks with lines that begin with a colon, read by the parser    *)
(* and by the handler.                                                     *)
(***************************************************************************)
L_COLON_VALUE == <<":", "v", "a", "l", "u", "e">>
L_SP_COLON_X == <<" ", ":", "x">>
ColonHeaderLines == {L_COLON_VALUE, L_SP_COLON_X, L_SUBJECT_HI, L_SECOND}

ColonInputs ==
    {HCommands \o h \o <<L_EMPTY, L_HELLO>> \o t :
        h \in SeqsUpTo(ColonHeaderLines, MaxHeaderLines),
        t \in {<<L_DOT>>, <<>>, <<IOError>>}}

ColonInit == BothInit(ColonInputs)
ColonSpec == ColonInit /\ [][BothNext]_vars

\* C31: every header recorded by the parser (the finished headers and the
\* open header) and every header of a NewEmail built by from_raw_message has
\* a non-empty name, whatever the data lines are.
C31_HeaderNamesNonEmpty ==
    /\ \A k \in 1..Len(parser.headers) : parser.headers[k][1] # <<>>
    /\ parser.current_header # None => parser.current_header[1].name # <<>>
    /\ \A i \in PersistCalls :
          \A k \in 1..Len(h_log[i].email.headers) :
              h_log[i].email.headers[k][1] # <<>>

(***************************************************************************)
(* DATA before, between and after RCPT TO lines: a greeting, a MAIL FROM,  *)
(* up to MaxRcpt + 1 lines that are DATA or a RCPT TO with a valid or an   *)
(* invalid address, and then any beginning of DATA and a message.          *)
(***************************************************************************)
DataOrRcptLines == {L_DATA, L_RCPT_R, L_RCPT_T, RcptTight(A_BAD)}

DataInputs ==
    {<<L_HELO, L_MAIL_S>> \o mid \o tail :
        mid \in SeqsUpTo(DataOrRcptLines, MaxRcpt + 1),
        tail \in Prefixes(MessageTail)}

DataInit == ParserInit(DataInputs) /\ HandlerIdle /\ ServerIdle
DataSpec == DataInit /\ [][Next]_vars

IsToEvent(e) == e.tag = "To"
\* the addresses of the To events returned so far, in order
ToEventAddresses ==
    [i \in 1..Len(SelectSeq(p_events, IsToEvent)) |->
        SelectSeq(p_events, IsToEvent)[i].val]

\* C32: DATA is accepted only after a RCPT TO line was parsed successfully:
\* whenever the parser is in the state Headers, Body or End, its recipient
\* list is not empty, is exactly the addresses of the To events returned so
\* far, in order, and has no empty address in it.
C32_DataOnlyAfterRecipient ==
    parser.state \in {"Headers", "Body", "End"} =>
        /\ Len(parser.to) >= 1
        /\ parser.to = ToEventAddresses
        /\ \A k \in 1..Len(parser.to) : parser.to[k] # <<>>

\* DATA was refused before the first recipient and taken after the second
C32_Witness ==
    /\ parser.state = "End"
    /\ parser.to = <<A_R, A_T>>
    /\ Len(p_events) >= 1
    /\ p_events[1] = Ev("From", Some(A_S))
    /\ Len(p_events) >= 2
    /\ p_events[2] = Ev("UnrecognizedCommand", L_DATA)

\* a dialog whose terminator arrives while the header block is open: the
\* commands, header lines, no empty line, and "." as the last line
DotInHeaderBlock(input) ==
    /\ input \in Dialogs
    /\ input[Len(input)] = L_DOT
    /\ \A i \in 1..Len(input) : input[i] # L_EMPTY
    /\ \A i \in 1..(Len(input) - 1) :
          input[i] = L_DATA => \A j \in (i + 1)..(Len(input) - 1) : input[j] \in HeaderLines

\* C33: once DATA was accepted, a line that is exactly "." ends the data also
\* when the header block is still open: the "." line is not reported as a
\* malformed header; when every line was read, Body was returned and the
\* parser is past the data; and at the end of input Done is returned.
C33_DotEndsOpenHeaderBlock ==
    DotInHeaderBlock(p_input) =>
        /\ \A i \in 1..Len(p_events) : p_events[i] # Ev("InvalidHeader", L_DOT)
        /\ (parser.lines = <<>> /\ p_events # <<>>) =>
              /\ parser.state \in {"End", "Done"}
              /\ \E i \in 1..Len(p_events) : p_events[i].tag = "Body"
        /\ p_ends >= 1 => \E i \in 1..Len(p_events) : p_events[i].tag = "Done"

(***************************************************************************)
(* Data lines with leading and trailing spaces, tabs, form feeds and       *)
(* no-break spaces, received by the handler after the commands and a       *)
(* closed header block.                                                    *)
(***************************************************************************)
L_FF_DOT_NBSP == <<"\f", ".", "U+00A0">>
L_DOT_SP == <<".", " ">>
L_TAB_DOT == <<"\t", ".">>
L_SP_HELLO_SP == <<" ", "H", "e", "l", "l", "o", " ">>
L_SP_DOT_FOO == <<" ", ".", "f", "o", "o">>
WhitespaceLines ==
    {L_SP_DOT, L_DOT_SP, L_TAB_DOT, L_FF_DOT_NBSP, L_SP_HELLO_SP, L_SP_DOT_FOO, L_DOT_FOO}

WhitespaceInputs ==
    {BodyCommands \o b \o t :
        b \in SeqsUpTo(WhitespaceLines, MaxBodyLines),
        t \in {<<>>, <<L_DOT>>, <<IOError>>}}

WhitespaceInit == HandlerInit(WhitespaceInputs) /\ ParserIdle /\ ServerIdle
WhitespaceSpec == WhitespaceInit /\ [][HandlerNext]_vars

\* C34: the handler ends the data phase, and calls persist_email, only when
\* a received line is exactly "."; a line such as " ." or ". " does not end
\* it; and every data line received before that is stored with its leading
\* and trailing whitespace as received, less one leading dot.
C34_OnlyExactDotEndsData ==
    LET d == HandlerDataRead
    IN /\ PersistCalls # {} => \E k \in 1..Len(d) : d[k] = L_DOT
       /\ \A k \in 1..Len(d) :
             (\A j \in 1..k : d[j] # L_DOT) =>
                 /\ Len(handler.body) >= k
                 /\ handler.body[k] = StoredLine(d[k])

(***************************************************************************)
(* Folded headers received by the handler: the commands, "Subject: Hi",    *)
(* up to MaxHeaderLines lines that are continuations (with or without a    *)
(* colon) or a new header, the empty line, a body line, and the end.       *)
(***************************************************************************)
L_TAB_X_Y == <<"\t", "x", ":", " ", "y">>
FoldLines == {L_SECOND, L_TAB_X_Y, L_CC}

FoldInputs ==
    {HCommands \o <<L_SUBJECT_HI>> \o c \o <<L_EMPTY, L_HELLO>> \o t :
        c \in SeqsUpTo(FoldLines, MaxHeaderLines),
        t \in {<<L_DOT>>, <<>>, <<IOError>>}}

FoldInit == HandlerInit(FoldInputs) /\ ParserIdle /\ ServerIdle
FoldSpec == FoldInit /\ [][HandlerNext]_vars

\* the headers of a header block as the folding rule gives them: a line that
\* starts with a space or tab adds a space and its content to the value of
\* the header before it; any other line "name: value" is a new header
RECURSIVE FoldedHeaders(_, _)
FoldedHeaders(block, headers) ==
    IF block = <<>> THEN headers
    ELSE LET l == Head(block)
         IN IF IsContinuationLine(l) /\ headers # <<>>
            THEN FoldedHeaders(Tail(block),
                     [headers EXCEPT ![Len(headers)][2] = @ \o <<" ">> \o trim(l)])
            ELSE FoldedHeaders(Tail(block),
                     Append(headers, <<trim(FieldName(l)), trim(FieldRest(l))>>))

\* the header block of a dialog of FoldInputs
FoldBlock(input) == SubSeq(input, Len(HCommands) + 1, EmptyIndex(input, 1) - 1)

\* C35: in the handler path a line of the header block that starts with a
\* space or tab continues the header before it: its content is appended to
\* that header's value after a single space, and it starts no new header,
\* also when it contains a colon.
C35_ContinuationFoldsIntoHeader ==
    h_input \in FoldInputs =>
        \A i \in PersistCalls :
            h_log[i].email.headers = FoldedHeaders(FoldBlock(h_input), <<>>)

\* C36: Done is returned at most once; once it was returned the parser is in
\* the state Done and every later call of next() returns None.
C36_DoneOnceThenNone ==
    \A i \in 1..Len(p_events) :
        p_events[i].tag = "Done" =>
            /\ parser.state = "Done"
            /\ \A j \in (i + 1)..Len(p_events) : p_events[j].tag = "None"

\* C37: the registry holds no handle of a finished connection: once the task
\* of a connection has ended (after its removal, unless it panicked) and the
\* accept task is done with that connection, the registry has no entry for
\* it; and when no connection is in flight the registry is empty.
C37_NoFinishedConnectionRecorded ==
    /\ \A c \in Conns :
          (server.conn[c] = "finished" /\ server.pending # c) =>
              c \notin server.registry
    /\ (server.pending = 0 /\ \A c \in Conns : ~ConnInFlight(c)) =>
          server.registry = {}

\* the positions of the shutdown calls in the log of the handler
ShutdownCalls == {i \in 1..Len(h_log) : IsShutdown(h_log[i])}
HandlerPanicked == \E i \in 1..Len(h_log) : h_log[i].op = "panic"

\* C38: on every path of handle() (the greeting cannot be written, a read
\* error, the end of input, an error reply, a message accepted) the shutdown
\* of the write stream is called exactly once, when handle() ends, and
\* nothing is written after it.
C38_ShutdownExactlyOnce ==
    /\ Cardinality(ShutdownCalls) <= 1
    /\ ShutdownCalls # {} => ShutdownCalls = {Len(h_log)} /\ h_pc = "done"
    /\ (h_pc = "done" /\ ~HandlerPanicked) => Cardinality(ShutdownCalls) = 1

\* handle() has ended after a message was accepted, with its one shutdown
C38_Witness ==
    /\ h_pc = "done"
    /\ Len(h_log) >= 2
    /\ h_log[Len(h_log)] = ShutDown
    /\ h_log[Len(h_log) - 1] = Wrote(R250Accepted, TRUE)
    /\ Cardinality(ShutdownCalls) = 1

\* the parser after the items s were consumed one after the other, from the
\* parser p on
RECURSIVE AfterLines(_, _)
AfterLines(p, s) ==
    IF s = <<>> THEN p
    ELSE IF Head(s) = IOError THEN AfterLines(p, Tail(s))
    ELSE AfterLines(dispatch(p, Head(s)).p, Tail(s))

\* the transaction of a parser: everything but the lines still to be read
Transaction(p) ==
    [state |-> p.state, from |-> p.from, to |-> p.to, headers |-> p.headers,
     current_header |-> p.current_header, body |-> p.body]

\* the errors next() returns for a line it has read
LineErrorTags == {"UnrecognizedCommand", "InvalidFromEmailAddress",
                  "InvalidToEmailAddress", "UnexpectedDataAfterEnd", "InvalidHeader"}

\* C39: when next() has just returned an error for a line, the dialog state,
\* the sender, the recipients, the finished headers, the open header and the
\* body are what they were just before that line was consumed.
C39_RejectedLineChangesNothing ==
    (/\ p_events # <<>>
     /\ p_events[Len(p_events)].tag \in LineErrorTags
     /\ p_ends = 0) =>
        LET k == Len(p_input) - Len(parser.lines)
        IN Transaction(parser) =
               Transaction(AfterLines(MessageParser_new(<<>>), SubSeq(p_input, 1, k - 1)))

\* C40: for every line, also one with multi-byte characters such that byte
\* offset 4, 8 or 10 is inside a character, next() and handle_line return a
\* result and do not panic when they slice the keyword off the line.
C40_KeywordSliceNeverPanics ==
    /\ \A i \in 1..Len(p_events) : p_events[i].tag # "Panic"
    /\ ~HandlerPanicked

====
